---- MODULE Spec2Model ----
(***************************************************************************)
(* A model of the gameroy emulator core: the GameBoy bus (read, write,     *)
(* tick, reset, save states) of core/src/gameboy.rs, the sound controller  *)
(* of core/src/sound_controller.rs and the ROM files of the front end      *)
(* (src/rom_loading/android.rs).                                           *)
(*                                                                         *)
(* A GameBoy is a record with the fields of the Rust struct; every method  *)
(* is an operator from records to records, and every action of the state   *)
(* machine applies one method to the machine held in the variable gb.      *)
(* Memories are kept at a sample of their addresses (the sets *Idx below); *)
(* bytes are integers 0..255 and every narrowing the code does is written  *)
(* out.                                                                    *)
(***************************************************************************)
EXTENDS Integers, Sequences, FiniteSets, TLC

VARIABLES
    gb,         \* the GameBoy the host holds
    saved,      \* the save-state stream the host keeps (<<>>: none yet)
    saved_from, \* the GameBoy that stream was saved from
    op,         \* the last operation applied, with its arguments and result
    steps,      \* number of operations applied so far (bounds the exploration)
    rom,        \* the ROM file the front end looks at, and the header it got
    ui,         \* the RomEntries of the rom loading screen
    loader      \* start_loading: its worker thread and the events it sent

vars == <<gb, saved, saved_from, op, steps, rom, ui, loader>>

(***************************************************************************)
(* Bit arithmetic on naturals.                                             *)
(***************************************************************************)
RECURSIVE BitAnd(_, _)
BitAnd(a, b) ==
    IF a = 0 \/ b = 0 THEN 0
    ELSE (a % 2) * (b % 2) + 2 * BitAnd(a \div 2, b \div 2)

RECURSIVE BitOr(_, _)
BitOr(a, b) ==
    IF a = 0 THEN b
    ELSE IF b = 0 THEN a
    ELSE (IF a % 2 = 1 \/ b % 2 = 1 THEN 1 ELSE 0) + 2 * BitOr(a \div 2, b \div 2)

Bit(x, k) == (x \div (2 ^ k)) % 2

Shr(x, k) == x \div (2 ^ k)

\* x & !mask on a byte
BitClear(x, mask) == x - BitAnd(x, mask)

\* the element of a singleton: {F(x) : x \in {e}} is F applied to the value
\* of e, however often F uses its argument
Only(S) == CHOOSE x \in S : TRUE

(***************************************************************************)
(* u64 products that do not fit the model checker's integers:              *)
(* MulDivMod(x, m, d) = << (x * m) \div d, (x * m) % d >>, by doubling.     *)
(***************************************************************************)
RECURSIVE MulDivMod(_, _, _)
MulDivMod(x, m, d) ==
    IF x = 0 THEN <<0, 0>>
    ELSE Only({ Only({ Only({ <<2 * h[1] + rest \div d, rest % d>> :
                                rest \in {2 * h[2] + (x0 % 2) * m} }) :
                         h \in {MulDivMod(x0 \div 2, m, d)} }) :
                  x0 \in {x} })

(***************************************************************************)
(* consts::CLOCK_SPEED, the T-cycle frequency in Hz (2^22).                *)
(***************************************************************************)
CLOCK_SPEED == 4194304

(***************************************************************************)
(* SoundController (core/src/sound_controller.rs).                         *)
(*                                                                         *)
(* output, the Vec<u16> of samples, is kept run-length encoded: a sequence *)
(* of records [v |-> value, n |-> how many times], adjacent runs of equal  *)
(* value merged, so that the long runs of zeros the off branch of update   *)
(* appends stay small.                                                     *)
(***************************************************************************)
WaveIdx == 0 .. 15

SoundDefault ==
    [ nr10 |-> 0, nr11 |-> 0, nr12 |-> 0, nr13 |-> 0, nr14 |-> 0,
      nr21 |-> 0, nr22 |-> 0, nr23 |-> 0, nr24 |-> 0,
      nr30 |-> 0, nr31 |-> 0, nr32 |-> 0, nr33 |-> 0, nr34 |-> 0,
      ch3_wave_pattern |-> [i \in WaveIdx |-> 0],
      nr41 |-> 0, nr42 |-> 0, nr43 |-> 0, nr44 |-> 0,
      nr50 |-> 0, nr51 |-> 0, nr52 |-> 0,
      on |-> FALSE,
      ch1_channel_enable |-> FALSE,
      ch1_length_timer |-> 0,
      ch1_sweep_enabled |-> FALSE,
      ch1_shadow_freq |-> 0,
      ch1_sweep_timer |-> 0,
      ch1_frequency_timer |-> 0,
      ch1_wave_duty_position |-> 0,
      ch1_current_volume |-> 0,
      ch1_env_period_timer |-> 0,
      ch2_channel_enable |-> FALSE,
      ch2_length_timer |-> 0,
      ch2_frequency_timer |-> 0,
      ch2_wave_duty_position |-> 0,
      ch2_current_volume |-> 0,
      ch2_env_period_timer |-> 0,
      ch3_channel_enable |-> FALSE,
      ch3_length_timer |-> 0,
      ch3_frequency_timer |-> 0,
      ch3_wave_position |-> 0,
      output |-> <<>>,
      last_clock |-> 0,
      sample_frequency |-> 48000,
      sample_mod |-> 0 ]

WAVE_DUTY_TABLE == <<1, 3, 15, 252>>

\* Vec::push / Vec::extend of n copies of value v
OutputPush(out, v, n) ==
    IF n = 0 THEN out
    ELSE IF Len(out) > 0 /\ out[Len(out)].v = v
         THEN [out EXCEPT ![Len(out)].n = @ + n]
         ELSE Append(out, [v |-> v, n |-> n])

\* the number of u16 values in the Vec
OutputLen(out) ==
    LET RECURSIVE Sum(_)
        Sum(i) == IF i = 0 THEN 0 ELSE out[i].n + Sum(i - 1)
    IN Sum(Len(out))

\* u16::from_be_bytes([hi, lo]) & 0x07FF
Freq11(hi, lo) == (hi % 8) * 256 + lo

\* SoundController::calculate_frequency: the new frequency, and the state
\* with the sweep disabled when it overflows 11 bits
calculate_frequency(s, ch1_sweep_shift, is_downwards) ==
    LET shifted == Shr(s.ch1_shadow_freq, ch1_sweep_shift)
        new_freq == IF is_downwards
                    THEN s.ch1_shadow_freq - shifted
                    ELSE (s.ch1_shadow_freq + shifted) % 65536
    IN [ freq |-> new_freq,
         s |-> IF new_freq >= 2048
               THEN [s EXCEPT !.ch1_sweep_enabled = FALSE]
               ELSE s ]

\* the off branch of SoundController::update
UpdateOff(s, clock_count) ==
    LET anchor == s.last_clock - (s.last_clock % CLOCK_SPEED)
        l == s.last_clock - anchor
        r == clock_count - anchor
        rq == MulDivMod(r, s.sample_frequency, CLOCK_SPEED)
        lq == MulDivMod(l, s.sample_frequency, CLOCK_SPEED)
        n == rq[1] - lq[1] + (IF lq[2] < s.sample_frequency THEN 1 ELSE 0)
        \* last_clock is assigned before elapsed_clock is computed from it
        elapsed_clock == clock_count - clock_count
    IN [s EXCEPT !.output = OutputPush(@, 0, 2 * n),
                 !.last_clock = clock_count,
                 !.sample_mod =
                     (@ + elapsed_clock * s.sample_frequency) % CLOCK_SPEED]

\* faulty variant of env: the volume is stepped without the test for its
\* ends (a u8 that wraps)
EnvWrapping(period, period_timer, current_volume, is_upwards) ==
    IF period = 0 THEN [period_timer |-> period_timer, current_volume |-> current_volume]
    ELSE LET pt == IF period_timer > 0 THEN period_timer - 1 ELSE period_timer
         IN IF pt # 0 THEN [period_timer |-> pt, current_volume |-> current_volume]
            ELSE [ period_timer |-> period,
                   current_volume |->
                       IF is_upwards THEN (current_volume + 1) % 256
                       ELSE (current_volume + 255) % 256 ]

\* the nested fn env of update: one volume envelope step
env(period, period_timer, current_volume, is_upwards) ==
    IF period = 0 THEN [period_timer |-> period_timer, current_volume |-> current_volume]
    ELSE LET pt == IF period_timer > 0 THEN period_timer - 1 ELSE period_timer
         IN IF pt # 0 THEN [period_timer |-> pt, current_volume |-> current_volume]
            ELSE [ period_timer |-> period,
                   current_volume |->
                       IF current_volume < 15 /\ is_upwards THEN current_volume + 1
                       ELSE IF current_volume > 0 /\ ~is_upwards THEN current_volume - 1
                       ELSE current_volume ]

\* the three frequency timers of one T-cycle of update's loop
FrequencyTimers(s) ==
    LET ch1_freq == Freq11(s.nr14, s.nr13)
        ch2_freq == Freq11(s.nr24, s.nr23)
        ch3_freq == Freq11(s.nr34, s.nr33)
    IN [s EXCEPT
          !.ch1_frequency_timer = IF @ <= 1 THEN (2048 - ch1_freq) * 4 ELSE @ - 1,
          !.ch1_wave_duty_position =
              IF s.ch1_frequency_timer <= 1 THEN (@ + 1) % 8 ELSE @,
          !.ch2_frequency_timer = IF @ <= 1 THEN (2048 - ch2_freq) * 4 ELSE @ - 1,
          !.ch2_wave_duty_position =
              IF s.ch2_frequency_timer <= 1 THEN (@ + 1) % 8 ELSE @,
          !.ch3_frequency_timer = IF @ <= 1 THEN (2048 - ch3_freq) * 2 ELSE @ - 1,
          !.ch3_wave_position =
              IF s.ch3_frequency_timer <= 1 THEN (@ + 1) % 32 ELSE @]

\* faulty variant of the length counter step: the length-enable bits are
\* not looked at
LengthStepAlways(s) ==
    [s EXCEPT
       !.ch1_length_timer = IF @ # 0 THEN @ - 1 ELSE @,
       !.ch1_channel_enable = IF s.ch1_length_timer = 1 THEN FALSE ELSE @,
       !.ch2_length_timer = IF @ # 0 THEN @ - 1 ELSE @,
       !.ch2_channel_enable = IF s.ch2_length_timer = 1 THEN FALSE ELSE @,
       !.ch3_length_timer = IF @ # 0 THEN @ - 1 ELSE @,
       !.ch3_channel_enable = IF s.ch3_length_timer = 1 THEN FALSE ELSE @]

\* faulty variant of the length counter step: the timers count down but the
\* channel-enable latches are left as they are
LengthStepKeepingLatch(s) ==
    [s EXCEPT
       !.ch1_length_timer = IF Bit(s.nr14, 6) = 1 /\ @ # 0 THEN @ - 1 ELSE @,
       !.ch2_length_timer = IF Bit(s.nr24, 6) = 1 /\ @ # 0 THEN @ - 1 ELSE @,
       !.ch3_length_timer = IF Bit(s.nr34, 6) = 1 /\ @ # 0 THEN @ - 1 ELSE @]

\* the length counter step of the frame sequencer
LengthStep(s) ==
    LET dec1 == Bit(s.nr14, 6) = 1 /\ s.ch1_length_timer # 0
        dec2 == Bit(s.nr24, 6) = 1 /\ s.ch2_length_timer # 0
        dec3 == Bit(s.nr34, 6) = 1 /\ s.ch3_length_timer # 0
    IN [s EXCEPT
          !.ch1_length_timer = IF dec1 THEN @ - 1 ELSE @,
          !.ch1_channel_enable = IF dec1 /\ s.ch1_length_timer = 1 THEN FALSE ELSE @,
          !.ch2_length_timer = IF dec2 THEN @ - 1 ELSE @,
          !.ch2_channel_enable = IF dec2 /\ s.ch2_length_timer = 1 THEN FALSE ELSE @,
          !.ch3_length_timer = IF dec3 THEN @ - 1 ELSE @,
          !.ch3_channel_enable = IF dec3 /\ s.ch3_length_timer = 1 THEN FALSE ELSE @]

\* the volume envelope step of the frame sequencer (channels 1 and 2)
EnvelopeStep(s) ==
    LET e1 == env(s.nr12 % 8, s.ch1_env_period_timer, s.ch1_current_volume,
                  Bit(s.nr12, 3) = 1)
        e2 == env(s.nr22 % 8, s.ch2_env_period_timer, s.ch2_current_volume,
                  Bit(s.nr22, 3) = 1)
    IN [s EXCEPT !.ch1_env_period_timer = e1.period_timer,
                 !.ch1_current_volume = e1.current_volume,
                 !.ch2_env_period_timer = e2.period_timer,
                 !.ch2_current_volume = e2.current_volume]

\* the sweep step of the frame sequencer (channel 1)
SweepStep(s) ==
    LET ch1_sweep_period == Shr(BitAnd(s.nr10, 112), 4)
        ch1_sweep_direction == Bit(s.nr10, 7) = 1
        ch1_sweep_shift == s.nr10 % 8
        s1 == IF s.ch1_sweep_timer > 0
              THEN [s EXCEPT !.ch1_sweep_timer = @ - 1] ELSE s
    IN IF s1.ch1_sweep_timer # 0 THEN s1
       ELSE LET s2 == [s1 EXCEPT !.ch1_sweep_timer =
                           IF ch1_sweep_period = 0 THEN 8 ELSE ch1_sweep_period]
            IN IF ~(s2.ch1_sweep_enabled /\ ch1_sweep_period # 0) THEN s2
               ELSE LET c1 == calculate_frequency(s2, ch1_sweep_shift, ch1_sweep_direction)
                    IN IF ~(c1.freq < 2048 /\ ch1_sweep_shift > 0) THEN c1.s
                       ELSE LET s3 == [c1.s EXCEPT
                                         !.nr14 = BitOr(BitAnd(@, 248), Shr(c1.freq, 8) % 8),
                                         !.nr13 = c1.freq % 256,
                                         !.ch1_shadow_freq = c1.freq]
                            IN \* do overflow check again
                               calculate_frequency(s3, ch1_sweep_shift,
                                                   ch1_sweep_direction).s

\* the three flags of a frame-sequencer step, computed from the clock
lenght_ctr(clock) == clock % (CLOCK_SPEED \div 256) = 0

volume_env(clock) == clock % (CLOCK_SPEED \div 64) = 0

sweep(clock) == (clock + CLOCK_SPEED \div 256) % (CLOCK_SPEED \div 128) = 0

\* the frame sequencer of one T-cycle of update's loop
FrameSequencer(s, clock) ==
    IF clock % (CLOCK_SPEED \div 512) # 0 THEN s
    ELSE LET s1 == IF lenght_ctr(clock) THEN LengthStep(s) ELSE s
             s2 == IF volume_env(clock) THEN EnvelopeStep(s1) ELSE s1
         IN IF sweep(clock) THEN SweepStep(s2) ELSE s2

\* the left and right values update pushes when it collects a sample
Mix(s) ==
    LET ch1_duty == Shr(s.nr11, 6) % 4
        ch2_duty == Shr(s.nr21, 6) % 4
        ch3_output_level == <<4, 0, 1, 2>>[Shr(BitAnd(s.nr32, 96), 5) + 1]
        volume_left == Shr(BitAnd(s.nr50, 112), 4)
        volume_right == s.nr50 % 8
        ch1_amp == Bit(WAVE_DUTY_TABLE[ch1_duty + 1], s.ch1_wave_duty_position)
                       * s.ch1_current_volume
        ch2_amp == Bit(WAVE_DUTY_TABLE[ch2_duty + 1], s.ch2_wave_duty_position)
                       * s.ch2_current_volume
        ch3_amp == Shr(Shr(s.ch3_wave_pattern[s.ch3_wave_position \div 2],
                           <<4, 0>>[(s.ch3_wave_position % 2) + 1]) % 16,
                       ch3_output_level)
        on1 == s.ch1_channel_enable
        on2 == s.ch2_channel_enable
        on3 == s.ch3_channel_enable /\ Bit(s.nr30, 7) = 1
        left == (IF on1 /\ Bit(s.nr51, 4) = 1 THEN ch1_amp ELSE 0)
              + (IF on2 /\ Bit(s.nr51, 5) = 1 THEN ch2_amp ELSE 0)
              + (IF on3 /\ Bit(s.nr51, 6) = 1 THEN ch3_amp ELSE 0)
        right == (IF on1 /\ Bit(s.nr51, 0) = 1 THEN ch1_amp ELSE 0)
               + (IF on2 /\ Bit(s.nr51, 1) = 1 THEN ch2_amp ELSE 0)
               + (IF on3 /\ Bit(s.nr51, 2) = 1 THEN ch3_amp ELSE 0)
    IN <<left * volume_left, right * volume_right>>

\* faulty variant of the sample collection: the phase is tested before it is
\* advanced
CollectSampleBeforeStep(s) ==
    LET sm == (s.sample_mod + s.sample_frequency) % CLOCK_SPEED
    IN IF s.sample_mod < s.sample_frequency
       THEN LET lr == Mix(s)
            IN [s EXCEPT !.sample_mod = sm,
                         !.output = OutputPush(OutputPush(@, lr[1], 1), lr[2], 1)]
       ELSE [s EXCEPT !.sample_mod = sm]

\* collect a sample: the end of one T-cycle of update's loop
CollectSample(s) ==
    LET sm == (s.sample_mod + s.sample_frequency) % CLOCK_SPEED
    IN IF sm < s.sample_frequency
       THEN LET lr == Mix(s)
            IN [s EXCEPT !.sample_mod = sm,
                         !.output = OutputPush(OutputPush(@, lr[1], 1), lr[2], 1)]
       ELSE [s EXCEPT !.sample_mod = sm]

\* the body of `for clock in self.last_clock..clock_count`
SoundClock(s, clock) ==
    Only({ Only({CollectSample(s2) : s2 \in {FrameSequencer(s1, clock)}}) :
             s1 \in {FrequencyTimers(s)} })

\* the loop, from clock `from` up to and excluding clock `to`; the interval is
\* halved so that the evaluation stays shallow
RECURSIVE SoundRun(_, _, _)
SoundRun(s, from, to) ==
    IF from >= to THEN s
    ELSE IF to - from = 1 THEN SoundClock(s, from)
    ELSE Only({ Only({SoundRun(half, mid, end) : half \in {SoundRun(s0, start, mid)}}) :
                 s0 \in {s}, start \in {from}, mid \in {(from + to) \div 2},
                 end \in {to} })

\* SoundController::update
SoundUpdate(s, clock_count) ==
    IF ~s.on THEN UpdateOff(s, clock_count)
    ELSE [SoundRun(s, s.last_clock, clock_count) EXCEPT !.last_clock = clock_count]

\* SoundController::get_output: the state left behind (the Vec is taken)
get_output(s, clock_count) ==
    [SoundUpdate(s, clock_count) EXCEPT !.output = <<>>]

\* the trigger event of a write to NR14 (value bit 7 set)
TriggerCh1(s) ==
    LET ch1_freq == Freq11(s.nr14, s.nr13)
        ch1_sweep_period == Shr(BitAnd(s.nr10, 112), 4)
        ch1_sweep_shift == s.nr10 % 8
        ch1_sweep_direction == Bit(s.nr10, 7) = 1
        s0 == [s EXCEPT
                 !.ch1_channel_enable = TRUE,
                 !.ch1_length_timer = IF @ = 0 THEN 64 ELSE @,
                 !.ch1_frequency_timer = (2048 - ch1_freq) * 4,
                 !.ch1_wave_duty_position = 0,
                 !.ch1_sweep_timer = IF ch1_sweep_period = 0 THEN 8 ELSE ch1_sweep_period]
        s1 == [s0 EXCEPT
                 !.ch1_shadow_freq = s0.ch1_frequency_timer,
                 !.ch1_sweep_enabled = (ch1_sweep_period # 0 \/ ch1_sweep_shift # 0)]
        s2 == IF ch1_sweep_period # 0
              THEN calculate_frequency(s1, ch1_sweep_shift, ch1_sweep_direction).s
              ELSE s1
    IN [s2 EXCEPT !.ch1_env_period_timer = s.nr12 % 8,
                  !.ch1_current_volume = Shr(BitAnd(s.nr12, 240), 4)]

\* faulty variant of the trigger of channel 2: the duty position is kept
TriggerCh2KeepingPosition(s) ==
    LET ch2_freq == Freq11(s.nr24, s.nr23)
    IN [s EXCEPT
          !.ch2_channel_enable = TRUE,
          !.ch2_length_timer = IF @ = 0 THEN 64 ELSE @,
          !.ch2_env_period_timer = s.nr22 % 8,
          !.ch2_current_volume = Shr(BitAnd(s.nr22, 240), 4),
          !.ch2_frequency_timer = (2048 - ch2_freq) * 4]

\* the trigger event of a write to NR24 (value bit 7 set)
TriggerCh2(s) ==
    LET ch2_freq == Freq11(s.nr24, s.nr23)
    IN [s EXCEPT
          !.ch2_channel_enable = TRUE,
          !.ch2_length_timer = IF @ = 0 THEN 64 ELSE @,
          !.ch2_env_period_timer = s.nr22 % 8,
          !.ch2_current_volume = Shr(BitAnd(s.nr22, 240), 4),
          !.ch2_frequency_timer = (2048 - ch2_freq) * 4,
          !.ch2_wave_duty_position = 0]

\* the trigger event of a write to NR34 (value bit 7 set)
TriggerCh3(s) ==
    LET ch3_freq == Freq11(s.nr34, s.nr33)
    IN [s EXCEPT
          !.ch3_channel_enable = TRUE,
          !.ch3_length_timer = IF @ = 0 THEN 256 ELSE @,
          !.ch3_frequency_timer = (2048 - ch3_freq) * 2,
          !.ch3_wave_position = 0]

\* the offsets SoundController::read and write match; any other reaches
\* their unreachable!() arm
SoundAddresses == (16 .. 20) \cup (22 .. 30) \cup (32 .. 38) \cup (48 .. 63)

\* faulty variant of the NR52 write: power off only mutes, the registers and
\* channel state are kept
WriteNr52Muting(s, value) ==
    IF Bit(value, 7) = 0 THEN [s EXCEPT !.on = FALSE] ELSE [s EXCEPT !.on = TRUE]

\* the write to NR52 (0x26): bit 7 clear stops all sounds and replaces the
\* whole controller by its default
WriteNr52(s, value) ==
    IF Bit(value, 7) = 0 THEN SoundDefault ELSE [s EXCEPT !.on = TRUE]

\* the match of SoundController::write, after the update
SoundWriteRegister(s, address, value) ==
    CASE address = 16 -> [s EXCEPT !.nr10 = value]
      [] address = 17 -> [s EXCEPT !.nr11 = value,
                                   !.ch1_length_timer = 64 - (value % 64)]
      [] address = 18 -> [s EXCEPT !.nr12 = value]
      [] address = 19 -> [s EXCEPT !.nr13 = value]
      [] address = 20 -> [(IF Bit(value, 7) = 1 THEN TriggerCh1(s) ELSE s)
                             EXCEPT !.nr14 = value]
      [] address = 22 -> [s EXCEPT !.nr21 = value]
      [] address = 23 -> [s EXCEPT !.nr22 = value]
      [] address = 24 -> [s EXCEPT !.nr23 = value,
                                   !.ch2_length_timer = 64 - (s.nr21 % 64)]
      [] address = 25 -> [(IF Bit(value, 7) = 1 THEN TriggerCh2(s) ELSE s)
                             EXCEPT !.nr24 = value]
      [] address = 26 -> [s EXCEPT !.nr30 = value]
      [] address = 27 -> [s EXCEPT !.nr31 = value,
                                   !.ch3_length_timer = 256 - value]
      [] address = 28 -> [s EXCEPT !.nr32 = value]
      [] address = 29 -> [s EXCEPT !.nr33 = value]
      [] address = 30 -> [(IF Bit(value, 7) = 1 THEN TriggerCh3(s) ELSE s)
                             EXCEPT !.nr34 = value]
      [] address = 32 -> [s EXCEPT !.nr41 = value]
      [] address = 33 -> [s EXCEPT !.nr42 = value]
      [] address = 34 -> [s EXCEPT !.nr43 = value]
      [] address = 35 -> [s EXCEPT !.nr44 = value]
      [] address = 36 -> [s EXCEPT !.nr50 = value]
      [] address = 37 -> [s EXCEPT !.nr51 = value]
      [] address = 38 -> WriteNr52(s, value)
      [] address \in 48 .. 63 -> [s EXCEPT !.ch3_wave_pattern[address - 48] = value]

\* SoundController::write
SoundWrite(s, clock_count, address, value) ==
    SoundWriteRegister(SoundUpdate(s, clock_count), address, value)

\* SoundController::read: the byte returned. The method takes no clock count
\* and does not call update: the controller is left as it is.
SoundRead(s, address) ==
    CASE address = 16 -> s.nr10
      [] address = 17 -> s.nr11
      [] address = 18 -> s.nr12
      [] address = 19 -> s.nr13
      [] address = 20 -> s.nr14
      [] address = 22 -> s.nr21
      [] address = 23 -> s.nr22
      [] address = 24 -> s.nr23
      [] address = 25 -> s.nr24
      [] address = 26 -> s.nr30
      [] address = 27 -> s.nr31
      [] address = 28 -> s.nr32
      [] address = 29 -> s.nr33
      [] address = 30 -> s.nr34
      [] address = 32 -> s.nr41
      [] address = 33 -> s.nr42
      [] address = 34 -> s.nr43
      [] address = 35 -> s.nr44
      [] address = 36 -> s.nr50
      [] address = 37 -> s.nr51
      [] address = 38 -> s.nr52
      [] address \in 48 .. 63 -> s.ch3_wave_pattern[address - 48]

(***************************************************************************)
(* The sampled cells of each memory, as offsets into it.  A cell outside   *)
(* the sample is never written (write addresses are drawn from the         *)
(* sample) and reads as the value the memory is filled with.               *)
(***************************************************************************)
WramIdx == {0, 256, 7679, 7680}    \* C000, C100, DDFF, DE00
HramIdx == {0, 122, 123, 124, 126} \* FF80, FFFA, FFFB, FFFC, FFFE
VramIdx == {0}                     \* 8000
OamIdx == {0, 159}                 \* FE00, FE9F
CartRamIdx == {0}                  \* A000

Cell(mem, i, fill) == IF i \in DOMAIN mem THEN mem[i] ELSE fill

\* faulty variant of the array store: the index is ignored, every byte the
\* model follows takes the value
StoreAll(mem, i, value) == [j \in DOMAIN mem |-> value]

Store(mem, i, value) == IF i \in DOMAIN mem THEN [mem EXCEPT ![i] = value] ELSE mem

(***************************************************************************)
(* Cpu (core/src/cpu.rs is not part of the sources; the registers are the  *)
(* ones reset_after_boot sets).                                            *)
(***************************************************************************)
CpuDefault ==
    [ a |-> 0, f |-> 0, b |-> 0, c |-> 0, d |-> 0, e |-> 0, h |-> 0, l |-> 0,
      sp |-> 0, pc |-> 0, ime |-> "Disabled", state |-> "Running" ]

(***************************************************************************)
(* Cartridge: a ROM-only cartridge with RAM (NoMBC): the ROM is read       *)
(* directly and ignores writes, the RAM is at A000-BFFF.                   *)
(***************************************************************************)
CartridgeRomByte(address) == (address * 7 + 19) % 256

CartridgeNew == [ram |-> [i \in CartRamIdx |-> 0]]

CartridgeRead(c, address) ==
    IF address <= 32767 THEN CartridgeRomByte(address)
    ELSE Cell(c.ram, address - 40960, 0)

CartridgeWrite(c, address, value) ==
    IF address <= 32767 THEN c
    ELSE [c EXCEPT !.ram = Store(@, address - 40960, value)]

\* the boot ROM image given to GameBoy::new, at offset i
BootRomByte(i) == (i * 5 + 1) % 256

(***************************************************************************)
(* Timer: DIV/TIMA/TMA/TAC.  div advances by one per T-cycle; TIMA         *)
(* increments on the falling edge of the TAC-selected bit of div and-ed    *)
(* with the TAC enable; an overflow reads 0 for 4 T-cycles, then TIMA is   *)
(* reloaded from TMA and the interrupt raised.                             *)
(***************************************************************************)
TimerNew ==
    [ div |-> 0, tima |-> 0, tma |-> 0, tac |-> 0, last_counter_bit |-> FALSE,
      last_clock_count |-> 0, loading |-> 0 ]

TimerSelectedBit(tac) == <<9, 3, 5, 7>>[(tac % 4) + 1]

\* TIMA + 1, with the delayed reload armed on overflow
TimerIncrement(t) ==
    IF t.tima = 255 THEN [t EXCEPT !.tima = 0, !.loading = 4]
    ELSE [t EXCEPT !.tima = @ + 1]

\* one T-cycle; r is [t |-> timer, interrupt |-> raised so far]
TimerCounterBit(t) == Bit(t.div, TimerSelectedBit(t.tac)) = 1 /\ Bit(t.tac, 2) = 1

\* the falling edge of the selected bit increments TIMA
TimerEdge(t, counter_bit) ==
    [(IF t.last_counter_bit /\ ~counter_bit THEN TimerIncrement(t) ELSE t)
        EXCEPT !.last_counter_bit = counter_bit]

TimerClock(r) ==
    [ t |-> Only({TimerEdge(t1, TimerCounterBit(t1)) :
                    t1 \in {[r.t EXCEPT !.div = (@ + 1) % 65536,
                                        !.loading = IF @ > 0 THEN @ - 1 ELSE 0,
                                        !.tima = IF r.t.loading = 1 THEN r.t.tma ELSE @]}}),
      interrupt |-> r.interrupt \/ r.t.loading = 1 ]

RECURSIVE TimerRun(_, _)
TimerRun(r, n) ==
    IF n = 0 THEN r
    ELSE IF n = 1 THEN TimerClock(r)
    ELSE Only({ Only({TimerRun(half, k) : half \in {TimerRun(r, m)}}) :
                 m \in {n \div 2}, k \in {n - n \div 2} })

\* Timer::update: the timer caught up to clock_count, and whether it raised
\* the interrupt.  While the timer is stopped only div moves.
TimerUpdate(t, clock_count) ==
    LET n == clock_count - t.last_clock_count
        r == IF Bit(t.tac, 2) = 0 /\ t.loading = 0 /\ ~t.last_counter_bit
             THEN [t |-> [t EXCEPT !.div = (@ + n) % 65536], interrupt |-> FALSE]
             ELSE TimerRun([t |-> t, interrupt |-> FALSE], n)
    IN [r EXCEPT !.t.last_clock_count = clock_count]

\* Timer::read, address in 0x04..=0x07
TimerRead(t, address) ==
    CASE address = 4 -> Shr(t.div, 8)
      [] address = 5 -> t.tima
      [] address = 6 -> t.tma
      [] address = 7 -> t.tac

\* Timer::write, address in 0x04..=0x07.  A write to DIV clears the counter,
\* which is a falling edge when the selected bit was set; a write to TIMA
\* cancels a pending reload.
TimerWrite(t, address, value) ==
    CASE address = 4 ->
            [(IF t.last_counter_bit THEN TimerIncrement(t) ELSE t)
                EXCEPT !.div = 0, !.last_counter_bit = FALSE]
      [] address = 5 -> [t EXCEPT !.tima = value, !.loading = 0]
      [] address = 6 -> [t EXCEPT !.tma = value]
      [] address = 7 -> [t EXCEPT !.tac = BitOr(value, 248)]

(***************************************************************************)
(* Ppu: VRAM, OAM, the LCD registers and the scanline position.  A         *)
(* scanline is 456 dots: OAM search (mode 2) for 80 dots, pixel transfer   *)
(* (mode 3) for 172 dots, HBlank (mode 0) for the rest; lines 144..153 are *)
(* VBlank (mode 1).  The pixel FIFO and the frame buffer are left out:     *)
(* nothing on the bus reads them.                                          *)
(***************************************************************************)
DotsPerLine == 456
LinesPerFrame == 154
VBlankLine == 144
OamSearchDots == 80
PixelTransferDots == 172
DmaBytes == 160

PpuDefault ==
    [ vram |-> [i \in VramIdx |-> 0],
      oam |-> [i \in OamIdx |-> 0],
      lcdc |-> 0, stat |-> 0, scy |-> 0, scx |-> 0, ly |-> 0, lyc |-> 0,
      bgp |-> 0, obp0 |-> 0, obp1 |-> 0, wy |-> 0, wx |-> 0,
      dot |-> 0,
      stat_signal |-> FALSE,
      dma_running |-> FALSE,
      dma_started |-> 0,
      last_clock_count |-> 0 ]

PpuMode(p) ==
    IF p.ly >= VBlankLine THEN 1
    ELSE IF p.dot < OamSearchDots THEN 2
    ELSE IF p.dot < OamSearchDots + PixelTransferDots THEN 3
    ELSE 0

\* the level of the STAT interrupt line: the enabled sources or-ed
PpuStatLine(p) ==
    \/ Bit(p.stat, 6) = 1 /\ p.ly = p.lyc
    \/ Bit(p.stat, 5) = 1 /\ PpuMode(p) = 2
    \/ Bit(p.stat, 4) = 1 /\ PpuMode(p) = 1
    \/ Bit(p.stat, 3) = 1 /\ PpuMode(p) = 0

\* Ppu::reset_after_boot: the LCD registers the boot ROM leaves
PpuResetAfterBoot(p) ==
    [p EXCEPT !.lcdc = 145, !.stat = 0, !.scy = 0, !.scx = 0, !.ly = 0, !.lyc = 0,
              !.bgp = 252, !.obp0 = 255, !.obp1 = 255, !.wy = 0, !.wx = 0,
              !.dot = 0, !.stat_signal = FALSE, !.dma_running = FALSE]

\* the position n dots later
PpuAdvance(p, n) ==
    LET pos == p.ly * DotsPerLine + p.dot + n
    IN [p EXCEPT !.ly = (pos \div DotsPerLine) % LinesPerFrame,
                 !.dot = pos % DotsPerLine]

\* one dot; r is [p |-> ppu, stat |-> STAT interrupt raised so far]
PpuDot(r) ==
    Only({ [ p |-> [p1 EXCEPT !.stat_signal = PpuStatLine(p1)],
             stat |-> r.stat \/ (PpuStatLine(p1) /\ ~r.p.stat_signal) ] :
           p1 \in {PpuAdvance(r.p, 1)} })

RECURSIVE PpuRun(_, _)
PpuRun(r, n) ==
    IF n = 0 THEN r
    ELSE IF n = 1 THEN PpuDot(r)
    ELSE Only({ Only({PpuRun(half, k) : half \in {PpuRun(r, m)}}) :
                 m \in {n \div 2}, k \in {n - n \div 2} })

\* whether line 144 starts within the next n dots
PpuEntersVBlank(p, n) ==
    LET frame == DotsPerLine * LinesPerFrame
        pos == p.ly * DotsPerLine + p.dot
        togo == ((VBlankLine * DotsPerLine - pos - 1 + frame) % frame) + 1
    IN togo <= n

\* the scanline position caught up by n dots, with the interrupts raised on
\* the way.  With no STAT source enabled the line stays low.
PpuStep(p, n) ==
    Only({ [ p |-> r.p, v_blank |-> PpuEntersVBlank(p, n), stat |-> r.stat ] :
           r \in { IF BitAnd(p.stat, 120) = 0 /\ ~p.stat_signal
                   THEN [p |-> PpuAdvance(p, n), stat |-> FALSE]
                   ELSE PpuRun([p |-> p, stat |-> FALSE], n) } })

\* Ppu::read_vram / Ppu::write_vram: VRAM is blocked in mode 3
PpuReadVram(p, address) ==
    IF PpuMode(p) = 3 THEN 255 ELSE Cell(p.vram, address - 32768, 0)

PpuWriteVram(p, address, value) ==
    IF PpuMode(p) = 3 THEN p ELSE [p EXCEPT !.vram = Store(@, address - 32768, value)]

\* Ppu::read_oam / Ppu::write_oam: OAM is blocked in modes 2 and 3
PpuReadOam(p, address) ==
    IF PpuMode(p) \in {2, 3} THEN 255 ELSE Cell(p.oam, address - 65024, 0)

PpuWriteOam(p, address, value) ==
    IF PpuMode(p) \in {2, 3} THEN p ELSE [p EXCEPT !.oam = Store(@, address - 65024, value)]

\* Ppu::read, address in 0x40..=0x45 | 0x47..=0x4b
PpuRead(p, address) ==
    CASE address = 64 -> p.lcdc
      [] address = 65 -> 128 + BitAnd(p.stat, 120)
                             + (IF p.ly = p.lyc THEN 4 ELSE 0) + PpuMode(p)
      [] address = 66 -> p.scy
      [] address = 67 -> p.scx
      [] address = 68 -> p.ly
      [] address = 69 -> p.lyc
      [] address = 71 -> p.bgp
      [] address = 72 -> p.obp0
      [] address = 73 -> p.obp1
      [] address = 74 -> p.wy
      [] address = 75 -> p.wx

\* Ppu::write, address in 0x40..=0x45 | 0x47..=0x4b; LY is read-only and only
\* the enable bits of STAT are writable
PpuWrite(p, address, value) ==
    CASE address = 64 -> [p EXCEPT !.lcdc = value]
      [] address = 65 -> [p EXCEPT !.stat = BitAnd(value, 120)]
      [] address = 66 -> [p EXCEPT !.scy = value]
      [] address = 67 -> [p EXCEPT !.scx = value]
      [] address = 68 -> p
      [] address = 69 -> [p EXCEPT !.lyc = value]
      [] address = 71 -> [p EXCEPT !.bgp = value]
      [] address = 72 -> [p EXCEPT !.obp0 = value]
      [] address = 73 -> [p EXCEPT !.obp1 = value]
      [] address = 74 -> [p EXCEPT !.wy = value]
      [] address = 75 -> [p EXCEPT !.wx = value]

(***************************************************************************)
(* GameBoy (core/src/gameboy.rs).                                          *)
(*                                                                         *)
(* boot_rom is "None" or "Some" (the image BootRomByte).                   *)
(* serial_transfer_callback holds what the installed callback has been     *)
(* called with: the sequence of bytes sent so far.  trace and the v_blank  *)
(* callback (None after new) are left out.                                 *)
(***************************************************************************)
SERIAL_OFFSET == 8

AfterBootClock == 23440324

\* the value read() panics with (`expect` on a missing boot ROM)
PANIC == -1

\* after_boot/sound.sav, the controller the boot ROM leaves: master on,
\* channel 1 set up by the start-up sound, caught up to the boot's end
AfterBootSound ==
    [SoundDefault EXCEPT
        !.on = TRUE,
        !.nr11 = 128, !.nr12 = 243, !.nr13 = 193, !.nr14 = 135,
        !.nr50 = 119, !.nr51 = 243,
        !.ch1_channel_enable = TRUE,
        !.ch1_length_timer = 64,
        !.ch1_frequency_timer = 4,
        !.last_clock = AfterBootClock]

\* GameBoy::reset_after_boot
reset_after_boot(g) ==
    [g EXCEPT
        !.cpu = [ a |-> 1, f |-> 176, b |-> 0, c |-> 19, d |-> 0, e |-> 216,
                  h |-> 1, l |-> 77, sp |-> 65534, pc |-> 256,
                  ime |-> "Disabled", state |-> "Running" ],
        !.wram = [i \in WramIdx |-> 0],
        !.hram = [i \in HramIdx |->
                     CASE i = 122 -> 57 [] i = 123 -> 1 [] i = 124 -> 46 [] OTHER -> 0],
        !.boot_rom_active = FALSE,
        !.clock_count = AfterBootClock,
        !.ppu = [PpuResetAfterBoot(@) EXCEPT !.last_clock_count = AfterBootClock],
        !.joypad = 255,
        !.joypad_io = 207,
        !.serial_data = 0,
        !.serial_control = 126,
        !.timer = [ div |-> 43980, tima |-> 0, tma |-> 0, tac |-> 248,
                    last_counter_bit |-> FALSE,
                    last_clock_count |-> AfterBootClock, loading |-> 0 ],
        !.interrupt_flag = 225,
        !.sound = AfterBootSound]

\* GameBoy::new
new(boot_rom, cartridge) ==
    LET this == [ cpu |-> CpuDefault,
                  cartridge |-> cartridge,
                  wram |-> [i \in WramIdx |-> 0],
                  hram |-> [i \in HramIdx |-> 0],
                  boot_rom |-> boot_rom,
                  boot_rom_active |-> TRUE,
                  clock_count |-> 0,
                  timer |-> TimerNew,
                  sound |-> SoundDefault,
                  ppu |-> PpuDefault,
                  joypad |-> 255,
                  joypad_io |-> 0,
                  serial_data |-> 0,
                  serial_control |-> 126,
                  serial_transfer_started |-> 0,
                  serial_transfer_callback |-> <<>>,
                  interrupt_flag |-> 0,
                  dma |-> 255,
                  interrupt_enabled |-> 0,
                  v_blank_trigger |-> FALSE ]
    IN IF boot_rom = "None" THEN reset_after_boot(this) ELSE this

\* GameBoy::reset
reset(g) ==
    IF g.boot_rom = "None" THEN reset_after_boot(g)
    ELSE [g EXCEPT
            !.cpu = CpuDefault,
            !.wram = [i \in WramIdx |-> 0],
            !.hram = [i \in HramIdx |-> 0],
            !.boot_rom_active = TRUE,
            !.clock_count = 0,
            !.timer = TimerNew,
            !.sound = SoundDefault,
            !.ppu = PpuDefault,
            !.joypad = 255,
            !.joypad_io = 0]

\* impl PartialEq for GameBoy
eq(g, h) ==
    /\ g.cpu = h.cpu
    /\ g.cartridge = h.cartridge
    /\ g.wram = h.wram
    /\ g.hram = h.hram
    /\ g.boot_rom = h.boot_rom
    /\ g.boot_rom_active = h.boot_rom_active
    /\ g.clock_count = h.clock_count
    /\ g.timer = h.timer
    /\ g.sound = h.sound
    /\ g.ppu = h.ppu
    /\ g.joypad_io = h.joypad_io
    /\ g.joypad = h.joypad
    /\ g.serial_data = h.serial_data
    /\ g.serial_control = h.serial_control
    /\ g.interrupt_flag = h.interrupt_flag
    /\ g.interrupt_enabled = h.interrupt_enabled

\* the offsets read_io and write_io forward to the sound controller:
\* 0x10..=0x14 | 0x16..=0x1e | 0x20..=0x26 | 0x30..=0x3f
SoundForwarded == (16 .. 20) \cup (22 .. 30) \cup (32 .. 38) \cup (48 .. 63)

\* GameBoy::read_io, address the low byte
read_io(g, address) ==
    CASE address = 0 ->
            LET v == BitAnd(g.joypad_io, 48)
                r0 == BitOr(v, 192)
                r1 == IF BitAnd(v, 16) # 0 THEN BitOr(r0, Shr(g.joypad, 4) % 16) ELSE r0
                r2 == IF BitAnd(v, 32) # 0 THEN BitOr(r1, g.joypad % 16) ELSE r1
            IN IF v = 0 THEN BitOr(r2, 15) ELSE r2
      [] address = 1 -> g.serial_data
      [] address = 2 -> g.serial_control
      [] address = 3 -> 255
      [] address \in 4 .. 7 -> TimerRead(g.timer, address)
      [] address \in 8 .. 14 -> 255
      [] address = 15 -> BitOr(g.interrupt_flag, 224)
      [] address \in SoundForwarded ->
            SoundRead(g.sound, address)
      [] address = 21 -> 255
      [] address = 31 -> 255
      [] address \in 39 .. 47 -> 255
      [] address \in 64 .. 69 -> PpuRead(g.ppu, address)
      [] address = 70 -> g.dma
      [] address \in 71 .. 75 -> PpuRead(g.ppu, address)
      [] address \in 76 .. 127 -> 255
      [] address \in 128 .. 254 -> Cell(g.hram, address - 128, 0)
      [] address = 255 -> g.interrupt_enabled

\* faulty variant of the ECHO rewrite: the address is left as it is
EchoNotRewritten(address) == address

\* faulty variant of the ECHO rewrite: the mirrored range runs on to 0xFEFF
EchoRewriteWide(address) ==
    IF address \in 57344 .. 65279 THEN address - 8192 ELSE address

\* the ECHO rewrite of read and write
EchoRewrite(address) ==
    IF address \in 57344 .. 65023 THEN address - 8192 ELSE address

\* GameBoy::read
read(g, address0) ==
    IF g.boot_rom_active /\ address0 < 256
    THEN IF g.boot_rom = "None" THEN PANIC ELSE BootRomByte(address0)
    ELSE LET address == EchoRewrite(address0)
         IN CASE address \in 0 .. 32767 -> CartridgeRead(g.cartridge, address)
              [] address \in 32768 .. 40959 -> PpuReadVram(g.ppu, address)
              [] address \in 40960 .. 49151 -> CartridgeRead(g.cartridge, address)
              [] address \in 49152 .. 57343 -> Cell(g.wram, address - 49152, 0)
              [] address \in 57344 .. 65023 -> PANIC
              [] address \in 65024 .. 65183 -> PpuReadOam(g.ppu, address)
              [] address \in 65184 .. 65279 -> 255
              [] address \in 65280 .. 65407 -> read_io(g, address % 256)
              [] address \in 65408 .. 65534 -> Cell(g.hram, address - 65408, 0)
              [] address = 65535 -> read_io(g, address % 256)

\* Ppu::start_dma
PpuStartDma(g, value) ==
    [g EXCEPT !.dma = value,
              !.ppu.dma_running = TRUE,
              !.ppu.dma_started = g.clock_count]

\* faulty variant of register 0x50: the flag follows bit 0 of every write
WriteBootRomToggle(g, value) == [g EXCEPT !.boot_rom_active = (BitAnd(value, 1) = 0)]

\* write_io, register 0x50: bit 0 unmaps the boot ROM
WriteBootRomDisable(g, value) ==
    IF g.boot_rom_active /\ BitAnd(value, 1) # 0
    THEN [g EXCEPT !.boot_rom_active = FALSE, !.cpu.pc = 256]
    ELSE g

\* GameBoy::write_io, address the low byte
write_io(g, address, value) ==
    CASE address = 0 -> [g EXCEPT !.joypad_io = BitOr(207, BitAnd(value, 48))]
      [] address = 1 -> [g EXCEPT !.serial_data = value]
      [] address = 2 ->
            IF BitAnd(value, 129) = 129
            THEN [g EXCEPT
                    !.serial_control = BitOr(value, 126),
                    !.serial_transfer_started = Shr(g.clock_count + SERIAL_OFFSET, 9),
                    !.serial_transfer_callback = Append(@, g.serial_data)]
            ELSE [g EXCEPT !.serial_control = BitOr(value, 126)]
      [] address = 3 -> g
      [] address \in 4 .. 7 -> [g EXCEPT !.timer = TimerWrite(@, address, value)]
      [] address \in 8 .. 14 -> g
      [] address = 15 -> [g EXCEPT !.interrupt_flag = value]
      [] address \in SoundForwarded ->
            [g EXCEPT !.sound = SoundWrite(@, g.clock_count, address, value)]
      [] address = 21 -> g
      [] address = 31 -> g
      [] address \in 39 .. 47 -> g
      [] address \in 64 .. 69 -> [g EXCEPT !.ppu = PpuWrite(@, address, value)]
      [] address = 70 -> PpuStartDma(g, value)
      [] address \in 71 .. 75 -> [g EXCEPT !.ppu = PpuWrite(@, address, value)]
      [] address \in 76 .. 79 -> g
      [] address = 80 -> WriteBootRomDisable(g, value)
      [] address \in 81 .. 127 -> g
      [] address \in 128 .. 254 -> [g EXCEPT !.hram = Store(@, address - 128, value)]
      [] address = 255 -> [g EXCEPT !.interrupt_enabled = value]

\* GameBoy::write, the match on the address after the ECHO rewrite
WriteBus(g, address, value) ==
    CASE address \in 0 .. 32767 ->
            [g EXCEPT !.cartridge = CartridgeWrite(@, address, value)]
      [] address \in 32768 .. 40959 ->
            [g EXCEPT !.ppu = PpuWriteVram(@, address, value)]
      [] address \in 40960 .. 49151 ->
            [g EXCEPT !.cartridge = CartridgeWrite(@, address, value)]
      [] address \in 49152 .. 57343 ->
            [g EXCEPT !.wram = Store(@, address - 49152, value)]
      [] address \in 57344 .. 65023 -> g
      [] address \in 65024 .. 65183 ->
            [g EXCEPT !.ppu = PpuWriteOam(@, address, value)]
      [] address \in 65184 .. 65279 -> g
      [] address \in 65280 .. 65407 -> write_io(g, address % 256, value)
      [] address \in 65408 .. 65534 ->
            [g EXCEPT !.hram = Store(@, address - 65408, value)]
      [] address = 65535 -> write_io(g, address % 256, value)

\* faulty variant of the clock advance: the sum is kept in the u8 of count
TickClockWrapping(g, count) == [g EXCEPT !.clock_count = (@ + count) % 256]

\* tick, first statement: the clock advances
TickClock(g, count) == [g EXCEPT !.clock_count = @ + count]

\* faulty variant of write: the bus access advances the clock itself
WriteThenTick(g, address0, value) ==
    TickClock(WriteBus(g, EchoRewrite(address0), value), 4)

\* GameBoy::write
write(g, address0, value) == WriteBus(g, EchoRewrite(address0), value)

\* whether the running DMA copies byte i between the last update and now
PpuDmaDue(g, i) ==
    /\ g.ppu.dma_running
    /\ g.ppu.last_clock_count < g.ppu.dma_started + 4 * (i + 1)
    /\ g.ppu.dma_started + 4 * (i + 1) <= g.clock_count

\* the byte the DMA reads for OAM byte i
PpuDmaSource(g, i) ==
    IF read(g, g.dma * 256 + i) = PANIC THEN 255 ELSE read(g, g.dma * 256 + i)

\* Ppu::update: the PPU caught up to clock_count.  A running OAM DMA copies
\* one byte per M-cycle from dma * 0x100 on, for 160 M-cycles.
PpuUpdate(g) ==
    Only({ [ g |-> [g EXCEPT !.ppu =
                      [r.p EXCEPT
                         !.oam = [i \in DOMAIN g.ppu.oam |->
                                     IF PpuDmaDue(g, i) THEN PpuDmaSource(g, i)
                                     ELSE g.ppu.oam[i]],
                         !.dma_running =
                             /\ g.ppu.dma_running
                             /\ g.clock_count < g.ppu.dma_started + 4 * DmaBytes,
                         !.last_clock_count = g.clock_count]],
             v_blank_interrupt |-> r.v_blank,
             stat_interrupt |-> r.stat ] :
           r \in {PpuStep(g.ppu, g.clock_count - g.ppu.last_clock_count)} })

\* tick, the ppu block: r is what Ppu::update returned
TickPpuFlags(r) ==
    [r.g EXCEPT
       !.interrupt_flag = BitOr(IF r.stat_interrupt THEN BitOr(@, 2) ELSE @,
                                IF r.v_blank_interrupt THEN 1 ELSE 0),
       !.v_blank_trigger = IF r.v_blank_interrupt THEN TRUE ELSE @]

TickPpu(g) == Only({TickPpuFlags(r) : r \in {PpuUpdate(g)}})

\* faulty variant of the timer block: the timer is not updated
TickTimerSkipped(g) == g

\* tick, the timer block: r is what Timer::update returned
TickTimerFlags(g, r) ==
    [g EXCEPT !.timer = r.t,
              !.interrupt_flag = IF r.interrupt THEN BitOr(@, 4) ELSE @]

TickTimer(g) ==
    Only({TickTimerFlags(g, r) : r \in {TimerUpdate(g.timer, g.clock_count)}})

\* faulty variant of the serial block: IF is assigned, not or-ed
TickSerialAssigningIf(g) ==
    IF /\ g.serial_transfer_started # 0
       /\ g.serial_transfer_started + 7 < Shr(g.clock_count + SERIAL_OFFSET, 9)
    THEN [g EXCEPT !.interrupt_flag = 8,
                   !.serial_control = BitClear(@, 128),
                   !.serial_transfer_started = 0]
    ELSE g

\* tick, the serial block
TickSerial(g) ==
    IF /\ g.serial_transfer_started # 0
       /\ g.serial_transfer_started + 7 < Shr(g.clock_count + SERIAL_OFFSET, 9)
    THEN [g EXCEPT !.interrupt_flag = BitOr(@, 8),
                   !.serial_control = BitClear(@, 128),
                   !.serial_transfer_started = 0]
    ELSE g

\* one block of tick applied to r = [g, order]: `order` lists the units
\* updated so far, each with the clock_count it was given
TickPpuBlock(r) ==
    [ g |-> TickPpu(r.g),
      order |-> Append(r.order, [unit |-> "ppu", clock |-> r.g.clock_count]) ]

TickTimerBlock(r) ==
    [ g |-> TickTimer(r.g),
      order |-> Append(r.order, [unit |-> "timer", clock |-> r.g.clock_count]) ]

TickSerialBlock(r) ==
    [ g |-> TickSerial(r.g),
      order |-> Append(r.order, [unit |-> "serial", clock |-> r.g.clock_count]) ]

\* GameBoy::tick, with the order of its blocks recorded
TickBlocks(g, count) ==
    Only({TickSerialBlock(r3) :
            r3 \in {TickTimerBlock(r2) :
                      r2 \in {TickPpuBlock(r1) :
                                r1 \in {[g |-> TickClock(g, count), order |-> <<>>]}}}})

tick(g, count) == TickBlocks(g, count).g

(***************************************************************************)
(* Save states: crate::save_state!(GameBoy, ...).  A stream is a sequence  *)
(* of tokens [k |-> field, v |-> value], the header first (magic, then     *)
(* version), then the fields in the order of the macro call; the two       *)
(* booleans are packed in one bitset.                                      *)
(***************************************************************************)
SaveStateMagic == "GBRS"

SaveStateVersion == 1

Token(k, v) == [k |-> k, v |-> v]

\* the order of the fields in the macro call
FieldOrder ==
    << "magic", "version",
       "cpu", "cartridge", "wram", "hram", "clock_count", "timer",
       "sound", "ppu",
       "joypad_io", "joypad", "serial_data", "serial_control",
       "serial_transfer_started", "interrupt_flag", "dma", "interrupt_enabled",
       "bitset" >>

\* what save_state writes for one field
SaveField(g, k) ==
    CASE k = "magic" -> SaveStateMagic
      [] k = "version" -> SaveStateVersion
      [] k = "cpu" -> g.cpu
      [] k = "cartridge" -> g.cartridge
      [] k = "wram" -> g.wram
      [] k = "hram" -> g.hram
      [] k = "clock_count" -> g.clock_count
      [] k = "timer" -> g.timer
      [] k = "sound" -> g.sound
      [] k = "ppu" -> g.ppu
      [] k = "joypad_io" -> g.joypad_io
      [] k = "joypad" -> g.joypad
      [] k = "serial_data" -> g.serial_data
      [] k = "serial_control" -> g.serial_control
      [] k = "serial_transfer_started" -> g.serial_transfer_started
      [] k = "interrupt_flag" -> g.interrupt_flag
      [] k = "dma" -> g.dma
      [] k = "interrupt_enabled" -> g.interrupt_enabled
      [] k = "bitset" -> (IF g.boot_rom_active THEN 1 ELSE 0)
                             + (IF g.v_blank_trigger THEN 2 ELSE 0)

\* SaveState::save_state for GameBoy
save_state(g) == [i \in 1 .. Len(FieldOrder) |-> Token(FieldOrder[i], SaveField(g, FieldOrder[i]))]

\* what load_state stores from one token
LoadField(g, k, v) ==
    CASE k = "magic" -> g
      [] k = "version" -> g
      [] k = "cpu" -> [g EXCEPT !.cpu = v]
      [] k = "cartridge" -> [g EXCEPT !.cartridge = v]
      [] k = "wram" -> [g EXCEPT !.wram = v]
      [] k = "hram" -> [g EXCEPT !.hram = v]
      [] k = "clock_count" -> [g EXCEPT !.clock_count = v]
      [] k = "timer" -> [g EXCEPT !.timer = v]
      [] k = "sound" -> [g EXCEPT !.sound = v]
      [] k = "ppu" -> [g EXCEPT !.ppu = v]
      [] k = "joypad_io" -> [g EXCEPT !.joypad_io = v]
      [] k = "joypad" -> [g EXCEPT !.joypad = v]
      [] k = "serial_data" -> [g EXCEPT !.serial_data = v]
      [] k = "serial_control" -> [g EXCEPT !.serial_control = v]
      [] k = "serial_transfer_started" -> [g EXCEPT !.serial_transfer_started = v]
      [] k = "interrupt_flag" -> [g EXCEPT !.interrupt_flag = v]
      [] k = "dma" -> [g EXCEPT !.dma = v]
      [] k = "interrupt_enabled" -> [g EXCEPT !.interrupt_enabled = v]
      [] k = "bitset" -> [g EXCEPT !.boot_rom_active = (Bit(v, 0) = 1),
                                   !.v_blank_trigger = (Bit(v, 1) = 1)]

\* the fields 1..n of the stream stored into g, in order
RECURSIVE LoadFields(_, _, _)
LoadFields(g, data, n) ==
    IF n = 0 THEN g
    ELSE LoadField(LoadFields(g, data, n - 1), FieldOrder[n], data[n].v)

\* the LoadStateError reading token i of the stream raises, or "Ok"
FieldError(data, i) ==
    IF i > Len(data) THEN "Truncated"
    ELSE IF data[i].k # FieldOrder[i] THEN "Corrupt"
    ELSE IF FieldOrder[i] = "magic" /\ data[i].v # SaveStateMagic THEN "BadMagic"
    ELSE IF FieldOrder[i] = "version" /\ data[i].v # SaveStateVersion
         THEN "UnsupportedVersion"
    ELSE "Ok"

\* the first token of the stream that cannot be read; 0 when all can
FirstError(data) ==
    LET bad == {i \in 1 .. Len(FieldOrder) : FieldError(data, i) # "Ok"}
    IN IF bad = {} THEN 0 ELSE CHOOSE i \in bad : \A j \in bad : i <= j

\* faulty variant of load_state: the fields read before the error are stored
LoadStatePartial(g, data) ==
    IF FirstError(data) = 0
    THEN [err |-> "Ok", g |-> LoadFields(g, data, Len(FieldOrder))]
    ELSE [err |-> FieldError(data, FirstError(data)),
          g |-> LoadFields(g, data, FirstError(data) - 1)]

\* SaveState::load_state for GameBoy: the result and the GameBoy left.  A
\* stream that is rejected leaves the GameBoy as it was.
load_state(g, data) ==
    LET k == FirstError(data)
    IN IF k = 0
       THEN [err |-> "Ok", g |-> LoadFields(g, data, Len(FieldOrder))]
       ELSE [err |-> FieldError(data, k), g |-> g]

(***************************************************************************)
(* ROM files of the front end (src/rom_loading/android.rs).  A file is     *)
(* kept as its length and the bytes of the cartridge header that differ    *)
(* between files: the first byte of the title (0x134), the cartridge type  *)
(* (0x147), ROM size (0x148), RAM size (0x149) and the header checksum     *)
(* (0x14D); every other byte of 0x134..=0x14C is 0.                        *)
(*                                                                         *)
(* CartridgeHeader::from_bytes (core/src/gameboy/cartridge.rs) is not part *)
(* of the sources: a file shorter than the 0x150 bytes of a header gives   *)
(* no header; a header whose checksum byte is wrong or whose cartridge     *)
(* type is not supported is returned with the error.                       *)
(***************************************************************************)
HeaderLen == 336

\* the cartridge types (byte 0x147) with a supported bank controller
SupportedTypes == {0, 1, 2, 3, 5, 6, 15, 16, 17, 18, 19, 25, 26, 27, 28, 29, 30}

\* no file selected yet
NoRomFile ==
    [len |-> 0, title |-> 0, cartridge_type |-> 0, rom_size |-> 0,
     ram_size |-> 0, header_checksum |-> 0]

\* get_header has not been called on the file
NotLoaded == [tag |-> "NotLoaded"]

\* Result<CartridgeHeader, _>
Ok(x) == [tag |-> "Ok", header |-> x]

Err(e) == [tag |-> "Err", error |-> e]

\* the Result of from_bytes: Err((Option<CartridgeHeader>, String))
ErrPartial(h, e) == [tag |-> "Err", header |-> h, error |-> e]

\* Option<CartridgeHeader>
None == [tag |-> "None"]

Some(x) == [tag |-> "Some", header |-> x]

\* read_uri(uri, bytes): at most `bytes` bytes from the start of the file
read_uri(file, bytes) == [file EXCEPT !.len = IF @ < bytes THEN @ ELSE bytes]

\* the checksum of header bytes 0x134..=0x14C: x = x - byte - 1 for each of
\* the 25 bytes, in a u8
HeaderChecksum(bytes) ==
    (25 * 256 - 25 - bytes.title - bytes.cartridge_type - bytes.rom_size
        - bytes.ram_size) % 256

\* CartridgeHeader::from_bytes
from_bytes(bytes) ==
    IF bytes.len < HeaderLen
    THEN ErrPartial(None, "file has less than 0x150 bytes")
    ELSE LET this == [ title |-> bytes.title,
                       cartridge_type |-> bytes.cartridge_type,
                       rom_size |-> bytes.rom_size,
                       ram_size |-> bytes.ram_size,
                       header_checksum |-> bytes.header_checksum ]
         IN IF HeaderChecksum(bytes) # bytes.header_checksum
            THEN ErrPartial(Some(this), "bad checksum")
            ELSE IF bytes.cartridge_type \notin SupportedTypes
            THEN ErrPartial(Some(this), "unsupported MBC byte")
            ELSE Ok(this)

\* faulty variant of get_header: every error of from_bytes is passed on
GetHeaderStrict(file) ==
    LET r == from_bytes(read_uri(file, HeaderLen))
    IN IF r.tag = "Ok" THEN Ok(r.header) ELSE Err(r.error)

\* RomFile::get_header
get_header(file) ==
    LET r == from_bytes(read_uri(file, HeaderLen))
    IN CASE r.tag = "Ok" -> Ok(r.header)
         [] r.tag = "Err" /\ r.header.tag = "Some" -> Ok(r.header.header)
         [] OTHER -> Err(r.error)

(***************************************************************************)
(* The state machine: a host that applies one operation after another.     *)
(***************************************************************************)
\* how many operations a run applies
MaxSteps == 3

BootRoms == {"None", "Some"}

\* the addresses the host reads and writes
Addresses ==
    { 16,       \* 0010 boot ROM overlay / cartridge ROM
      49152,    \* C000 WRAM
      56831,    \* DDFF WRAM, the last mirrored byte
      57344,    \* E000 ECHO of C000
      65023,    \* FDFF ECHO of DDFF
      65184,    \* FEA0 not usable
      65295,    \* FF0F IF
      65318,    \* FF26 NR52
      65360,    \* FF50 boot ROM disable
      65408 }   \* FF80 HRAM

\* the bytes the host writes
Values == {0, 1, 129}

\* the cycle counts the host ticks by (count is a u8)
TickCounts == {4, 255}

Op(kind, address, value, ret, order) ==
    [kind |-> kind, address |-> address, value |-> value, ret |-> ret, order |-> order]

\* the rom loading screen is not open: no RomEntries, nothing being loaded
NoRomEntries ==
    [ roms |-> <<>>, sort_collumn |-> 0, sort_direction |-> "Ascending",
      sort_list |-> [tag |-> "None"] ]

NotLoading ==
    [ pc |-> "none", folder |-> [tag |-> "None"], entries |-> <<>>, next |-> 0,
      events |-> <<>>, received |-> 0 ]

Init ==
    /\ gb \in {new(b, CartridgeNew) : b \in BootRoms}
    /\ saved = <<>>
    /\ saved_from = gb
    /\ op = Op("new", 0, 0, 0, <<>>)
    /\ steps = 0
    /\ rom = [file |-> NoRomFile, header |-> NotLoaded]
    /\ ui = NoRomEntries
    /\ loader = NotLoading

\* one more operation of the run
Counted ==
    /\ steps < MaxSteps
    /\ steps' = steps + 1

TickDone(r, count) ==
    /\ gb' = r.g
    /\ op' = Op("tick", 0, count, 0, r.order)

TickOp(count) == \E r \in {TickBlocks(gb, count)} : TickDone(r, count)

\* read takes &self; SoundController::read takes no clock, so nothing moves
ReadOp(address) ==
    /\ gb' = gb
    /\ op' = Op("read", address, 0, read(gb, address), <<>>)

WriteOp(address, value) ==
    /\ gb' = write(gb, address, value)
    /\ op' = Op("write", address, value, 0, <<>>)

Tick(count) ==
    /\ Counted
    /\ TickOp(count)
    /\ UNCHANGED <<saved, saved_from, rom, ui, loader>>

Read(address) ==
    /\ Counted
    /\ ReadOp(address)
    /\ UNCHANGED <<saved, saved_from, rom, ui, loader>>

Write(address, value) ==
    /\ Counted
    /\ WriteOp(address, value)
    /\ UNCHANGED <<saved, saved_from, rom, ui, loader>>

Reset ==
    /\ Counted
    /\ gb' = reset(gb)
    /\ op' = Op("reset", 0, 0, 0, <<>>)
    /\ UNCHANGED <<saved, saved_from, rom, ui, loader>>

\* the host drains the audio: sound.get_output(clock_count)
GetOutput ==
    /\ Counted
    /\ gb' = [gb EXCEPT !.sound = get_output(@, gb.clock_count)]
    /\ op' = Op("get_output", 0, 0, 0, <<>>)
    /\ UNCHANGED <<saved, saved_from, rom, ui, loader>>

\* the host constructs another GameBoy for the same cartridge
New(boot_rom) ==
    /\ Counted
    /\ gb' = new(boot_rom, CartridgeNew)
    /\ op' = Op("new", 0, 0, 0, <<>>)
    /\ UNCHANGED <<saved, saved_from, rom, ui, loader>>

SaveState ==
    /\ Counted
    /\ saved' = save_state(gb)
    /\ saved_from' = gb
    /\ op' = Op("save_state", 0, 0, 0, <<>>)
    /\ UNCHANGED <<gb, rom, ui, loader>>

\* the stream the host hands to load_state: the saved one, or a damaged copy
Damages == {"intact", "truncated", "corrupt", "bad_magic", "bad_version"}

Damaged(data, damage, k) ==
    CASE damage = "intact" -> data
      [] damage = "truncated" -> SubSeq(data, 1, k - 1)
      [] damage = "corrupt" -> [data EXCEPT ![k] = Token("junk", 0)]
      [] damage = "bad_magic" -> [data EXCEPT ![1] = Token("magic", "XXXX")]
      [] damage = "bad_version" ->
            [data EXCEPT ![2] = Token("version", SaveStateVersion + 1)]

LoadDone(r) ==
    /\ gb' = r.g
    /\ op' = Op("load_state", 0, 0, r.err, <<>>)

LoadState(damage, k) ==
    /\ Counted
    /\ LoadDone(load_state(gb, Damaged(saved, damage, k)))
    /\ UNCHANGED <<saved, saved_from, rom, ui, loader>>

Next ==
    \/ \E count \in TickCounts : Tick(count)
    \/ \E address \in Addresses : Read(address)
    \/ \E address \in Addresses, value \in Values : Write(address, value)
    \/ Reset
    \/ GetOutput
    \/ \E boot_rom \in BootRoms : New(boot_rom)
    \/ SaveState
    \/ \E damage \in Damages, k \in 1 .. Len(FieldOrder) :
          Len(saved) = Len(FieldOrder) /\ LoadState(damage, k)
    \/ Len(saved) = 0 /\ LoadState("intact", 1)

Spec == Init /\ [][Next]_vars

(***************************************************************************)
(* The emulation loop over a long stretch: the host ticks on and on, and   *)
(* early in the run sets up the units that raise interrupts.               *)
(***************************************************************************)
\* the T-cycles since construction
Elapsed(g) == g.clock_count - (IF g.boot_rom = "None" THEN AfterBootClock ELSE 0)

\* the stretch of T-cycles the run covers
MaxElapsed == 6120

\* the register writes happen in the first T-cycles of the stretch
MaxStartElapsed == 1020

\* how many register writes a run makes
MaxWrites == 2

\* the steps of the loop (count is a u8)
LongTickCounts == {255}

\* the register writes of the loop: <<address, value>>
TickWrites ==
    { <<65282, 129>>,   \* FF02 SC: start a transfer, internal clock
      <<65295, 16>>,    \* FF0F IF: the joypad bit
      <<65287, 5>>,     \* FF07 TAC: timer on, 262144 Hz
      <<65345, 40>>,    \* FF41 STAT: the mode 2 and mode 0 sources
      <<65350, 193>> }  \* FF46 DMA: OAM DMA from 0xC100

LongTick ==
    /\ Elapsed(gb) < MaxElapsed
    /\ \E count \in LongTickCounts : TickOp(count)
    /\ UNCHANGED <<saved, saved_from, steps, rom, ui, loader>>

SetupWrite(address, value) ==
    /\ steps < MaxWrites
    /\ Elapsed(gb) <= MaxStartElapsed
    /\ WriteOp(address, value)
    /\ steps' = steps + 1
    /\ UNCHANGED <<saved, saved_from, rom, ui, loader>>

NextTick ==
    \/ LongTick
    \/ \E w \in TickWrites : SetupWrite(w[1], w[2])

\* the emulation loop never stops calling tick
SpecTick == Init /\ [][NextTick]_vars /\ WF_vars(LongTick)

(***************************************************************************)
(* Third specification: a driver of the sound registers.  The host writes  *)
(* APU registers, reads them back, lets the clock run and drains the       *)
(* audio, in any order.                                                    *)
(***************************************************************************)
\* the register writes of the driver: <<address, value>>
SoundWrites ==
    { <<65296, 16>>,    \* FF10 NR10: sweep period 1, shift 0, upwards
      <<65298, 0>>,     \* FF12 NR12: initial volume 0, envelope downwards
      <<65299, 0>>,     \* FF13 NR13: frequency low byte 0
      <<65300, 135>>,   \* FF14 NR14: trigger, frequency high bits 7
      <<65305, 128>>,   \* FF19 NR24: trigger, frequency high bits 0
      <<65318, 0>>,     \* FF26 NR52: power off
      <<65318, 128>> }  \* FF26 NR52: power on

\* the registers the driver reads back
SoundReads == {65298, 65318}

NextSound ==
    \/ \E count \in LongTickCounts : Tick(count)
    \/ \E address \in SoundReads : Read(address)
    \/ \E w \in SoundWrites : Write(w[1], w[2])
    \/ GetOutput

SpecSound == Init /\ [][NextSound]_vars

(***************************************************************************)
(* Fourth specification: the frame sequencer at work.  The driver programs *)
(* channel 1 (NR10, NR13, NR14, in ascending order) before the run; then   *)
(* the emulation runs one frame-sequencer step after the other, the host   *)
(* draining the audio after each.                                          *)
(***************************************************************************)
\* the T-cycles of one frame-sequencer step
FrameCycles == CLOCK_SPEED \div 512

\* how many frame-sequencer steps a run covers
MaxFrames == 32

\* the register writes of the set-up: <<address, value>>
SweepWrites ==
    { <<65296, 119>>,   \* FF10 NR10: sweep period 7, shift 7
      <<65296, 17>>,    \* FF10 NR10: sweep period 1, shift 1
      <<65299, 208>>,   \* FF13 NR13: frequency low byte 0xD0
      <<65300, 135>> }  \* FF14 NR14: trigger, frequency high bits 7

\* the emulation loop: tick is called (count is a u8) until n T-cycles passed
RECURSIVE RunCycles(_, _)
RunCycles(g, n) ==
    IF n = 0 THEN g
    ELSE IF n <= 255 THEN tick(g, n)
    ELSE Only({RunCycles(g1, n - 255) : g1 \in {tick(g, 255)}})

FrameDone(g) ==
    /\ gb' = [g EXCEPT !.sound = get_output(@, g.clock_count)]
    /\ op' = Op("frame", 0, 0, 0, <<>>)

\* one frame-sequencer step of emulation, then sound.get_output(clock_count)
FrameStep ==
    /\ Elapsed(gb) < MaxFrames * FrameCycles
    /\ \E g \in {RunCycles(gb, FrameCycles)} : FrameDone(g)
    /\ UNCHANGED <<saved, saved_from, steps, rom, ui, loader>>

\* a register of channel 1 programmed before the run starts
SweepWrite(address, value) ==
    /\ op.kind \in {"new", "write"}
    /\ op.kind = "write" => address > op.address
    /\ WriteOp(address, value)
    /\ UNCHANGED <<saved, saved_from, steps, rom, ui, loader>>

NextSweep ==
    \/ FrameStep
    \/ \E w \in SweepWrites : SweepWrite(w[1], w[2])

\* the emulation loop never stops
SpecSweep == Init /\ [][NextSweep]_vars /\ WF_vars(FrameStep)

(***************************************************************************)
(* Fifth specification: the front end reads the headers of ROM files.  It  *)
(* looks at one file at a time: get_header on the file, then the next      *)
(* file.                                                                   *)
(***************************************************************************)
\* a file with the given length and header bytes; its checksum byte is the
\* right one plus off
RomFileOf(len, title, cartridge_type, ram_size, off) ==
    LET bytes == [ len |-> len, title |-> title,
                   cartridge_type |-> cartridge_type, rom_size |-> 0,
                   ram_size |-> ram_size, header_checksum |-> 0 ]
    IN [bytes EXCEPT !.header_checksum = (HeaderChecksum(bytes) + off) % 256]

\* the files of the rom folder
RomFiles ==
    { RomFileOf(len, title, cartridge_type, ram_size, off) :
        len \in {0, 335, 336, 32768},
        title \in {0, 84},
        cartridge_type \in {0, 1, 252},
        ram_size \in {0, 2},
        off \in {0, 1} }

InitRom ==
    /\ gb = new("None", CartridgeNew)
    /\ saved = <<>>
    /\ saved_from = gb
    /\ op = Op("new", 0, 0, 0, <<>>)
    /\ steps = 0
    /\ rom \in {[file |-> f, header |-> NotLoaded] : f \in RomFiles}
    /\ ui = NoRomEntries
    /\ loader = NotLoading

\* entry.file.get_header()
GetHeader ==
    /\ rom.header = NotLoaded
    /\ rom' = [rom EXCEPT !.header = get_header(rom.file)]
    /\ op' = Op("get_header", 0, 0, 0, <<>>)
    /\ UNCHANGED <<gb, saved, saved_from, steps, ui, loader>>

\* the front end goes on to another file of the folder
NextRom(file) ==
    /\ rom.header # NotLoaded
    /\ rom' = [file |-> file, header |-> NotLoaded]
    /\ op' = Op("next_rom", 0, 0, 0, <<>>)
    /\ UNCHANGED <<gb, saved, saved_from, steps, ui, loader>>

NextRomLoading ==
    \/ GetHeader
    \/ \E file \in RomFiles : NextRom(file)

SpecRom == InitRom /\ [][NextRomLoading]_vars

(***************************************************************************)
(* Sixth specification: the length counters at work.  The driver programs  *)
(* the length and trigger registers of channels 1 to 3 (in ascending       *)
(* order of address) before the run; then the emulation runs a few         *)
(* frame-sequencer steps, the host draining the audio after each.          *)
(***************************************************************************)
\* how many frame-sequencer steps a run covers
MaxLengthFrames == 3

\* the register writes of the set-up: <<address, value>>
LengthWrites ==
    { <<65297, 63>>,    \* FF11 NR11: length data 63, the timer is 1
      <<65300, 192>>,   \* FF14 NR14: trigger, length enabled
      <<65300, 128>>,   \* FF14 NR14: trigger, length disabled
      <<65302, 63>>,    \* FF16 NR21: length data 63
      <<65304, 0>>,     \* FF18 NR23: loads the timer of channel 2
      <<65305, 192>>,   \* FF19 NR24: trigger, length enabled
      <<65307, 255>>,   \* FF1B NR31: length data 255, the timer is 1
      <<65310, 192>> }  \* FF1E NR34: trigger, length enabled

\* one frame-sequencer step of emulation, then sound.get_output(clock_count)
LengthFrame ==
    /\ Elapsed(gb) < MaxLengthFrames * FrameCycles
    /\ \E g \in {RunCycles(gb, FrameCycles)} : FrameDone(g)
    /\ UNCHANGED <<saved, saved_from, steps, rom, ui, loader>>

\* a register programmed before the run starts
LengthWrite(address, value) ==
    /\ op.kind \in {"new", "write"}
    /\ op.kind = "write" => address > op.address
    /\ WriteOp(address, value)
    /\ UNCHANGED <<saved, saved_from, steps, rom, ui, loader>>

NextLength ==
    \/ LengthFrame
    \/ \E w \in LengthWrites : LengthWrite(w[1], w[2])

SpecLength == Init /\ [][NextLength]_vars

(***************************************************************************)
(* Seventh specification: the trigger events.  The host writes the         *)
(* envelope, length and frequency-high registers of channels 1 to 3 and    *)
(* lets the clock run, in any order.                                       *)
(***************************************************************************)
\* the register writes of the driver: <<address, value>>
TriggerWrites ==
    { <<65298, 163>>,   \* FF12 NR12: initial volume 10, envelope period 3
      <<65300, 128>>,   \* FF14 NR14: trigger, frequency high bits 0
      <<65300, 7>>,     \* FF14 NR14: no trigger, frequency high bits 7
      <<65303, 163>>,   \* FF17 NR22: initial volume 10, envelope period 3
      <<65305, 131>>,   \* FF19 NR24: trigger, frequency high bits 3
      <<65305, 3>>,     \* FF19 NR24: no trigger, frequency high bits 3
      <<65307, 255>>,   \* FF1B NR31: length data 255, the timer is 1
      <<65310, 133>>,   \* FF1E NR34: trigger, frequency high bits 5
      <<65318, 128>> }  \* FF26 NR52: power on

NextTrigger ==
    \/ \E count \in LongTickCounts : Tick(count)
    \/ \E w \in TriggerWrites : Write(w[1], w[2])

SpecTrigger == Init /\ [][NextTrigger]_vars

(***************************************************************************)
(* Eighth specification: channels 1 and 2 driven alike.  From a GameBoy    *)
(* constructed with a boot ROM (the sound controller is the default one,   *)
(* both channels in the same state, NR10 = 0) the host writes each value   *)
(* to a register of channel 1 and to the same register of channel 2,       *)
(* switches the power on, lets the clock run and drains the audio.         *)
(***************************************************************************)
\* the values written to both channels: <<address of NR1x, value>>; NR2x is
\* 5 further
PairWrites ==
    { <<65297, 63>>,    \* NR11 / NR21: length data 63
      <<65298, 163>>,   \* NR12 / NR22: initial volume 10, envelope period 3
      <<65299, 193>>,   \* NR13 / NR23: frequency low byte 0xC1
      <<65300, 128>>,   \* NR14 / NR24: trigger
      <<65300, 199>> }  \* NR14 / NR24: trigger, length enabled, high bits 7

InitBootRom ==
    /\ gb = new("Some", CartridgeNew)
    /\ saved = <<>>
    /\ saved_from = gb
    /\ op = Op("new", 0, 0, 0, <<>>)
    /\ steps = 0
    /\ rom = [file |-> NoRomFile, header |-> NotLoaded]
    /\ ui = NoRomEntries
    /\ loader = NotLoading

\* the same value written to NR1x and to NR2x
PairWrite(address, value) ==
    /\ Counted
    /\ gb' = write(write(gb, address, value), address + 5, value)
    /\ op' = Op("pair", address, value, 0, <<>>)
    /\ UNCHANGED <<saved, saved_from, rom, ui, loader>>

NextPair ==
    \/ \E w \in PairWrites : PairWrite(w[1], w[2])
    \/ Write(65318, 128)
    \/ \E count \in LongTickCounts : Tick(count)
    \/ GetOutput

SpecPair == InitBootRom /\ [][NextPair]_vars

(***************************************************************************)
(* Ninth specification: the sound controller with the master power off.    *)
(* From a GameBoy constructed with a boot ROM (NR52 = 0) the clock runs,    *)
(* the driver writes sound registers other than NR52 (each write starts    *)
(* with an update) and the host drains the audio.                          *)
(***************************************************************************)
\* the steps of the clock (count is a u8); 88 T-cycles after construction
\* 88 * 48000 mod CLOCK_SPEED = 29696 < 48000
OffTickCounts == {4, 88, 255}

\* the register writes while the power is off: <<address, value>>
OffWrites ==
    { <<65298, 163>>,   \* FF12 NR12
      <<65316, 119>> }  \* FF24 NR50

NextOff ==
    \/ \E count \in OffTickCounts : Tick(count)
    \/ \E w \in OffWrites : Write(w[1], w[2])
    \/ GetOutput

SpecOff == InitBootRom /\ [][NextOff]_vars

(***************************************************************************)
(* Tenth specification: the counters of the channels at their ends.  The   *)
(* driver programs the envelopes, lengths and frequencies of channels 1 to *)
(* 3 (in ascending order of address, NR52 last) before the run; then the   *)
(* emulation runs frame-sequencer steps, the host draining the audio after *)
(* each.                                                                   *)
(***************************************************************************)
\* the register writes of the set-up: <<address, value>>
RangeWrites ==
    { <<65298, 249>>,   \* FF12 NR12: initial volume 15, upwards, period 1
      <<65300, 135>>,   \* FF14 NR14: trigger, frequency high bits 7
      <<65303, 1>>,     \* FF17 NR22: initial volume 0, downwards, period 1
      <<65305, 135>>,   \* FF19 NR24: trigger, frequency high bits 7
      <<65307, 0>>,     \* FF1B NR31: length data 0, the timer is 256
      <<65310, 199>>,   \* FF1E NR34: trigger, length enabled, high bits 7
      <<65318, 128>> }  \* FF26 NR52: power on

NextRange ==
    \/ LengthFrame
    \/ \E w \in RangeWrites : LengthWrite(w[1], w[2])

SpecRange == Init /\ [][NextRange]_vars

(***************************************************************************)
(* Eleventh specification: the samples collected.  The driver sets the     *)
(* master volumes apart (NR50), triggers channel 1 and switches the power; *)
(* the clock runs for a stretch, and the host drains the audio.            *)
(***************************************************************************)
\* the stretch of T-cycles the clock runs
MaxSampleElapsed == 510

\* the register writes of the driver: <<address, value>>
SampleWrites ==
    { <<65300, 135>>,   \* FF14 NR14: trigger, frequency high bits 7
      <<65316, 23>>,    \* FF24 NR50: left volume 1, right volume 7
      <<65318, 0>>,     \* FF26 NR52: power off
      <<65318, 128>> }  \* FF26 NR52: power on

SampleTick ==
    /\ Elapsed(gb) < MaxSampleElapsed
    /\ \E count \in LongTickCounts : TickOp(count)
    /\ UNCHANGED <<saved, saved_from, steps, rom, ui, loader>>

NextSample ==
    \/ SampleTick
    \/ \E w \in SampleWrites : Write(w[1], w[2])
    \/ GetOutput

SpecSample == Init /\ [][NextSample]_vars

(***************************************************************************)
(* Twelfth specification: a host with its own sample rate.  After          *)
(* construction the host assigns the public field sample_frequency; then   *)
(* the driver writes the sound registers, the clock runs and the host      *)
(* drains the audio.                                                       *)
(***************************************************************************)
\* the sample rates of the host, in Hz (the default is 48000)
HostSampleFrequencies == {22050, 44100}

InitFrequency ==
    /\ gb \in { [new(b, CartridgeNew) EXCEPT !.sound.sample_frequency = fs] :
                  b \in BootRoms, fs \in HostSampleFrequencies }
    /\ saved = <<>>
    /\ saved_from = gb
    /\ op = Op("new", 0, 0, 0, <<>>)
    /\ steps = 0
    /\ rom = [file |-> NoRomFile, header |-> NotLoaded]
    /\ ui = NoRomEntries
    /\ loader = NotLoading

NextFrequency ==
    \/ \E count \in LongTickCounts : Tick(count)
    \/ \E w \in SoundWrites : Write(w[1], w[2])
    \/ GetOutput

SpecFrequency == InitFrequency /\ [][NextFrequency]_vars

(***************************************************************************)
(* Thirteenth specification: one note with its length enabled.  The driver *)
(* may load the length of a channel, triggers the channel with the length  *)
(* enabled and writes no more; the emulation then runs, one period of the  *)
(* length counter after the other, the host draining the audio after each, *)
(* for as long as a channel with its length enabled is sounding.           *)
(***************************************************************************)
\* the T-cycles between two length steps (256 Hz)
LengthCycles == CLOCK_SPEED \div 256

\* how many periods of the length counter a run covers
MaxNoteSteps == 64

\* the notes of the driver, each the sequence of its writes <<address,
\* value>>; the last write is the trigger with the length enabled (0xC0)
Notes ==
    { << <<65300, 192>> >>,                   \* NR14: the timer is 64, or 0
      << <<65297, 62>>, <<65300, 192>> >>,    \* NR11, NR14: the timer is 2
      << <<65305, 192>> >>,                   \* NR24: the timer is 0
      << <<65310, 192>> >>,                   \* NR34: the timer is 0
      << <<65307, 192>>, <<65310, 192>> >>,   \* NR31, NR34: the timer is 64
      << <<65307, 254>>, <<65310, 192>> >> }  \* NR31, NR34: the timer is 2

\* the power is on and a channel has its latch set and its length enabled
NoteSounding(s) ==
    /\ s.on
    /\ \/ s.ch1_channel_enable /\ Bit(s.nr14, 6) = 1
       \/ s.ch2_channel_enable /\ Bit(s.nr24, 6) = 1
       \/ s.ch3_channel_enable /\ Bit(s.nr34, 6) = 1

\* the k-th write of a note, after the writes before it
NoteWrite(note, k) ==
    /\ IF k = 1 THEN op.kind = "new"
       ELSE op.kind = "write" /\ <<op.address, op.value>> = note[k - 1]
    /\ WriteOp(note[k][1], note[k][2])
    /\ UNCHANGED <<saved, saved_from, steps, rom, ui, loader>>

\* one period of the length counter emulated, then sound.get_output
NoteRun ==
    /\ Elapsed(gb) < MaxNoteSteps * LengthCycles
    /\ NoteSounding(gb.sound)
    /\ \E half \in {RunCycles(gb, LengthCycles \div 2)} :
          \E g \in {RunCycles(half, LengthCycles \div 2)} : FrameDone(g)
    /\ UNCHANGED <<saved, saved_from, steps, rom, ui, loader>>

NextNote ==
    \/ \E note \in Notes : \E k \in 1 .. Len(note) : NoteWrite(note, k)
    \/ NoteRun

SpecNote == Init /\ [][NextNote]_vars

(***************************************************************************)
(* Fourteenth specification: the serial port.  Early in the run the host   *)
(* writes SC, to start a transfer or with the transfer bit clear; the      *)
(* emulation loop ticks on.                                                *)
(***************************************************************************)
\* the writes to SC: <<address, value>>
SerialWrites ==
    { <<65282, 129>>,   \* FF02 SC: start a transfer, internal clock
      <<65282, 1>> }    \* FF02 SC: transfer bit clear, internal clock

NextSerial ==
    \/ LongTick
    \/ \E w \in SerialWrites : SetupWrite(w[1], w[2])

SpecSerial == Init /\ [][NextSerial]_vars

(***************************************************************************)
(* Fifteenth specification: two GameBoys side by side.  The host holds a   *)
(* second GameBoy (in saved_from, constructed like the first) and compares *)
(* the two with ==.  It applies every tick and read to both; a register    *)
(* write goes to both or, early in the run, to one of the two.             *)
(***************************************************************************)
\* the register writes of the two hosts: <<address, value>>
TwinWrites ==
    { <<65282, 129>> }  \* FF02 SC: start a transfer, internal clock

\* the registers the host reads back
TwinReads ==
    { 65282,    \* FF02 SC
      65295 }   \* FF0F IF

\* tick(count) on both
TwinTick ==
    /\ Elapsed(gb) < MaxElapsed
    /\ \E count \in LongTickCounts :
         \E r \in {TickBlocks(gb, count)} :
           \E q \in {TickBlocks(saved_from, count)} :
             /\ gb' = r.g
             /\ saved_from' = q.g
             /\ op' = Op("tick", 0, count, 0, r.order)
    /\ UNCHANGED <<saved, steps, rom, ui, loader>>

\* read(address) on both; op keeps what the first returned
TwinRead(address) ==
    /\ op' = Op("read", address, 0, read(gb, address), <<>>)
    /\ UNCHANGED <<gb, saved, saved_from, steps, rom, ui, loader>>

\* write(address, value) on both
TwinWrite(address, value) ==
    /\ steps < MaxWrites
    /\ Elapsed(gb) <= MaxStartElapsed
    /\ gb' = write(gb, address, value)
    /\ saved_from' = write(saved_from, address, value)
    /\ op' = Op("write", address, value, 0, <<>>)
    /\ steps' = steps + 1
    /\ UNCHANGED <<saved, rom, ui, loader>>

\* write(address, value) on the first GameBoy alone
FirstWrite(address, value) ==
    /\ steps < MaxWrites
    /\ Elapsed(gb) <= MaxStartElapsed
    /\ gb' = write(gb, address, value)
    /\ op' = Op("write first", address, value, 0, <<>>)
    /\ steps' = steps + 1
    /\ UNCHANGED <<saved, saved_from, rom, ui, loader>>

\* write(address, value) on the second GameBoy alone
SecondWrite(address, value) ==
    /\ steps < MaxWrites
    /\ Elapsed(saved_from) <= MaxStartElapsed
    /\ saved_from' = write(saved_from, address, value)
    /\ op' = Op("write second", address, value, 0, <<>>)
    /\ steps' = steps + 1
    /\ UNCHANGED <<gb, saved, rom, ui, loader>>

NextTwin ==
    \/ TwinTick
    \/ \E address \in TwinReads : TwinRead(address)
    \/ \E w \in TwinWrites :
         \/ TwinWrite(w[1], w[2])
         \/ FirstWrite(w[1], w[2])
         \/ SecondWrite(w[1], w[2])

SpecTwin == Init /\ [][NextTwin]_vars

(***************************************************************************)
(* Sixteenth specification: the rom loading screen.  RomEntries::new reads *)
(* the sort order from the configuration and calls start_loading, whose    *)
(* worker thread lists the rom folder and sends the list twice, before and *)
(* after reading the headers.  The user interface hands the lists it       *)
(* receives to set_roms, and the user clicks on the column headers.  File  *)
(* names, titles and the error text are strings, of which the model keeps  *)
(* the order: a number stands for a string, the first byte for a title.    *)
(***************************************************************************)
\* the titles of COLLUMNS, by index 0..3
COLLUMNS == <<"File", "Header Name", "Size", "Last played">>

\* Option<T> of a name, a size, a save time, the configured sort order
NoValue == [tag |-> "None"]

Value(x) == [tag |-> "Some", value |-> x]

\* "Error reading header...", by its first byte
ErrorName == 69

\* CartridgeHeader::title_as_string
title_as_string(header) == header.title

\* CartridgeHeader::rom_size_in_bytes: 32 KiB << rom_size, None above 8
rom_size_in_bytes(header) ==
    IF header.rom_size <= 8 THEN Value(32768 * 2^header.rom_size) ELSE NoValue

\* a file of the rom folder: the file behind the uri, the file name the uri
\* ends with, and the time of its save file
FolderFile(file, file_name, save_time) ==
    [ k \in DOMAIN file \cup {"file_name", "save_time"} |->
        CASE k = "file_name" -> file_name
          [] k = "save_time" -> save_time
          [] OTHER -> file[k] ]

\* Ordering: Less, Equal, Greater as -1, 0, 1
cmp(a, b) == IF a < b THEN -1 ELSE IF a = b THEN 0 ELSE 1

\* Option<T>::cmp: None is less than every Some
cmpOption(a, b) ==
    CASE a.tag = "None" /\ b.tag = "None" -> 0
      [] a.tag = "None" -> -1
      [] b.tag = "None" -> 1
      [] OTHER -> cmp(a.value, b.value)

\* default_key(a).cmp(&default_key(b)): the tuples (file_name, name, size)
default_key(a, b) ==
    LET by_file == cmp(a.file.file_name, b.file.file_name)
        by_name == cmpOption(a.name, b.name)
    IN IF by_file # 0 THEN by_file
       ELSE IF by_name # 0 THEN by_name
       ELSE cmpOption(a.size, b.size)

\* the closure update_sort passes to sort_by
Compare(sort_collumn, sort_direction, a, b) ==
    LET by_collumn ==
            CASE sort_collumn = 0 -> cmp(a.file.file_name, b.file.file_name)
              [] sort_collumn = 1 -> cmpOption(a.name, b.name)
              [] sort_collumn = 2 -> cmpOption(a.size, b.size)
              [] sort_collumn = 3 -> 0 - cmpOption(a.save_time, b.save_time)
              [] OTHER -> 0
        ord == IF by_collumn = 0 THEN default_key(a, b) ELSE by_collumn
    IN IF sort_direction = "Ascending" THEN ord ELSE 0 - ord

\* slice::sort_by is stable: an element goes behind the elements of the
\* sorted part that are not greater
SortInsert(sorted, x, sort_collumn, sort_direction) ==
    LET k == Cardinality({ i \in 1..Len(sorted) :
                 Compare(sort_collumn, sort_direction, sorted[i], x) <= 0 })
    IN SubSeq(sorted, 1, k) \o <<x>> \o SubSeq(sorted, k + 1, Len(sorted))

RECURSIVE SliceSortBy(_, _, _)
SliceSortBy(roms, sort_collumn, sort_direction) ==
    IF roms = <<>> THEN <<>>
    ELSE SortInsert(SliceSortBy(SubSeq(roms, 1, Len(roms) - 1), sort_collumn, sort_direction),
                    roms[Len(roms)], sort_collumn, sort_direction)

\* RomEntries::update_sort
update_sort(this) ==
    [this EXCEPT !.roms = SliceSortBy(@, this.sort_collumn, this.sort_direction)]

\* faulty variant of sort_by: the direction is Ascending whatever the collumn
SortByAscending(this, collumn_index) ==
    LET title == IF collumn_index + 1 \in DOMAIN COLLUMNS
                 THEN Value([dir |-> "+", title |-> COLLUMNS[collumn_index + 1]])
                 ELSE this.sort_list
    IN update_sort([this EXCEPT !.sort_direction = "Ascending",
                                !.sort_collumn = collumn_index,
                                !.sort_list = title])

\* RomEntries::sort_by
sort_by(this, collumn_index) ==
    LET sort_direction ==
            IF this.sort_collumn = collumn_index
            THEN IF this.sort_direction = "Ascending" THEN "Descending" ELSE "Ascending"
            ELSE "Ascending"
        title == IF collumn_index + 1 \in DOMAIN COLLUMNS
                 THEN Value([dir |-> IF sort_direction = "Ascending" THEN "+" ELSE "-",
                             title |-> COLLUMNS[collumn_index + 1]])
                 ELSE this.sort_list
    IN update_sort([this EXCEPT !.sort_direction = sort_direction,
                                !.sort_collumn = collumn_index,
                                !.sort_list = title])

\* RomEntries::set_roms
set_roms(this, roms) == update_sort([this EXCEPT !.roms = roms])

\* RomEntries::new, the fields read from config().sort_list
RomEntriesNew(sort_list) ==
    [ roms |-> <<>>,
      sort_collumn |->
          IF sort_list.tag = "None" THEN 0
          ELSE CHOOSE c \in 0..3 : COLLUMNS[c + 1] = sort_list.value.title,
      sort_direction |->
          IF sort_list.tag = "Some" /\ sort_list.value.dir = "-"
          THEN "Descending" ELSE "Ascending",
      sort_list |-> sort_list ]

\* load_roms(&roms_path), then .ok().unwrap_or_default()
load_roms(listing) == IF listing.tag = "Ok" THEN listing.files ELSE <<>>

\* the entry start_loading makes of a file
NewEntry(file) ==
    [file |-> file, name |-> NoValue, size |-> NoValue, save_time |-> file.save_time]

\* faulty variant of LoadEntry: an entry whose header cannot be read is left alone
LoadEntryOkOnly(entry) ==
    LET header == get_header(entry.file)
    IN IF header.tag = "Err"
       THEN entry
       ELSE [entry EXCEPT
               !.name = Value(title_as_string(header.header)),
               !.size = LET size == rom_size_in_bytes(header.header)
                        IN Value(IF size.tag = "Some" THEN size.value ELSE 0)]

\* the body of the loop over entries.iter_mut()
LoadEntry(entry) ==
    LET header == get_header(entry.file)
    IN IF header.tag = "Err"
       THEN [entry EXCEPT !.name = Value(ErrorName), !.size = NoValue]
       ELSE [entry EXCEPT
               !.name = Value(title_as_string(header.header)),
               !.size = LET size == rom_size_in_bytes(header.header)
                        IN Value(IF size.tag = "Some" THEN size.value ELSE 0)]

\* the files of the rom folders
FileA == FolderFile(RomFileOf(32768, 84, 0, 0, 0), 2, Value(5))

\* too short for a header
FileB == FolderFile(RomFileOf(335, 84, 0, 0, 0), 1, NoValue)

\* a wrong checksum byte
FileC == FolderFile(RomFileOf(32768, 0, 1, 0, 1), 3, Value(7))

\* the file name and the header of FileA under another uri
FileD == FolderFile(RomFileOf(32768, 84, 0, 2, 0), 2, Value(9))

\* config().rom_folder and what listing the folder gives
RomFolders ==
    { NoValue,
      Value([tag |-> "Err"]),
      Value([tag |-> "Ok", files |-> <<>>]),
      Value([tag |-> "Ok", files |-> <<FileA, FileB, FileC>>]),
      Value([tag |-> "Ok", files |-> <<FileD, FileC, FileA>>]),
      Value([tag |-> "Ok", files |-> <<FileA, FileD, FileB>>]) }

\* config().sort_list
SortLists ==
    { NoValue,
      Value([dir |-> "-", title |-> "Size"]),
      Value([dir |-> "+", title |-> "Last played"]) }

InitRomList ==
    /\ gb = new("None", CartridgeNew)
    /\ saved = <<>>
    /\ saved_from = gb
    /\ op = Op("new", 0, 0, 0, <<>>)
    /\ steps = 0
    /\ rom = [file |-> NoRomFile, header |-> NotLoaded]
    /\ ui \in {RomEntriesNew(sort_list) : sort_list \in SortLists}
    /\ loader \in { [NotLoading EXCEPT !.pc = "new", !.folder = rom_folder] :
                      rom_folder \in RomFolders }

\* start_loading, up to the return or the spawn of the worker
StartLoading ==
    /\ loader.pc = "new"
    /\ loader' = IF loader.folder.tag = "None"
                 THEN [loader EXCEPT !.pc = "returned", !.events = Append(@, <<>>)]
                 ELSE [loader EXCEPT !.pc = "spawned"]
    /\ op' = Op("start_loading", 0, 0, 0, <<>>)
    /\ UNCHANGED <<gb, saved, saved_from, steps, rom, ui>>

\* the worker: the folder is listed and the entries are sent
WorkerList ==
    /\ loader.pc = "spawned"
    /\ \E entries \in {[i \in DOMAIN load_roms(loader.folder.value) |->
                          NewEntry(load_roms(loader.folder.value)[i])]} :
         loader' = [loader EXCEPT !.pc = "headers", !.entries = entries, !.next = 1,
                                  !.events = Append(@, entries)]
    /\ op' = Op("send_event", 0, 0, 0, <<>>)
    /\ UNCHANGED <<gb, saved, saved_from, steps, rom, ui>>

\* the worker: one turn of the loop over the entries
WorkerHeader ==
    /\ loader.pc = "headers"
    /\ loader.next <= Len(loader.entries)
    /\ loader' = [loader EXCEPT !.entries[loader.next] = LoadEntry(@), !.next = @ + 1]
    /\ op' = Op("get_header", 0, 0, 0, <<>>)
    /\ UNCHANGED <<gb, saved, saved_from, steps, rom, ui>>

\* the worker: the loop is over and the entries are sent again
WorkerSend ==
    /\ loader.pc = "headers"
    /\ loader.next > Len(loader.entries)
    /\ loader' = [loader EXCEPT !.pc = "finished", !.events = Append(@, loader.entries)]
    /\ op' = Op("send_event", 0, 1, 0, <<>>)
    /\ UNCHANGED <<gb, saved, saved_from, steps, rom, ui>>

\* the user interface takes the next UpdatedRomList event: set_roms
SetRoms ==
    /\ loader.received < Len(loader.events)
    /\ ui' = set_roms(ui, loader.events[loader.received + 1])
    /\ loader' = [loader EXCEPT !.received = @ + 1]
    /\ op' = Op("set_roms", 0, 0, 0, <<>>)
    /\ UNCHANGED <<gb, saved, saved_from, steps, rom>>

\* a click on the header of a collumn: SortBy(collumn_index)
SortBy(collumn_index) ==
    /\ ui' = sort_by(ui, collumn_index)
    /\ op' = Op("sort_by", collumn_index, 0, 0, <<>>)
    /\ UNCHANGED <<gb, saved, saved_from, steps, rom, loader>>

NextRomList ==
    \/ StartLoading
    \/ WorkerList
    \/ WorkerHeader
    \/ WorkerSend
    \/ SetRoms
    \/ \E collumn_index \in 0..3 : SortBy(collumn_index)

SpecRomList == InitRomList /\ [][NextRomList]_vars

(***************************************************************************)
(* The properties.                                                         *)
(***************************************************************************)
BusOps == {"read", "write"}

\* C1 (as stated): every call of GameBoy::read or GameBoy::write advances
\* clock_count by exactly 4 T-cycles.
C1_BusAccessAdvancesFour ==
    [][op'.kind \in BusOps => gb'.clock_count = gb.clock_count + 4]_vars

\* C1 (amended): GameBoy::read and GameBoy::write leave clock_count as it is;
\* only tick advances it, so the 4 T-cycles of a bus access are the caller's
\* tick(4).
C1_BusAccessKeepsClock ==
    [][op'.kind \in BusOps => gb'.clock_count = gb.clock_count]_vars

\* a read made after the clock has moved
C1_Witness ==
    /\ op.kind = "read"
    /\ op.address = 49152
    /\ Elapsed(gb) = 259

\* C2: over tick, read and write clock_count never decreases, and tick(n)
\* increases it by exactly n.
C2_ClockMonotonic ==
    [][ /\ op'.kind \in BusOps \cup {"tick"} => gb'.clock_count >= gb.clock_count
        /\ op'.kind = "tick" => gb'.clock_count = gb.clock_count + op'.value ]_vars

\* a tick(255) after a tick(4)
C2_Witness ==
    /\ op.kind = "tick"
    /\ op.value = 255
    /\ Elapsed(gb) = 259

\* ECHO addresses: the first, one in the middle, the last
EchoSample == {57344, 57600, 65023}

\* C3: for every ECHO address A, read(A) returns what read(A - 0x2000)
\* returns, and write(A, v) changes the state exactly as write(A - 0x2000, v).
C3_EchoMirrors ==
    \A A \in EchoSample :
        /\ read(gb, A) = read(gb, A - 8192)
        /\ \A v \in Values : write(gb, A, v) = write(gb, A - 8192, v)

\* a byte written through ECHO and read back at both addresses
C3_Witness ==
    /\ op.kind = "write"
    /\ op.address = 57344
    /\ op.value = 129
    /\ read(gb, 49152) = 129
    /\ read(gb, 57344) = 129

\* C4 (as stated): loading save_state(S) into any GameBoy holding the same
\* cartridge makes it equal to S under ==, also when the target was
\* constructed with another boot-ROM option.
C4_RoundTrip ==
    op.kind = "load_state" /\ op.ret = "Ok" => eq(gb, saved_from)

\* a state saved with a boot ROM, loaded into a GameBoy built without one
C4_Witness ==
    /\ op.kind = "load_state"
    /\ op.ret = "Ok"
    /\ saved_from.boot_rom = "Some"
    /\ gb.boot_rom = "None"
    /\ gb.clock_count = saved_from.clock_count

LowSample == {0, 16, 255}

SoundQuery ==
    \/ op.kind = "get_output"
    \/ op.kind \in BusOps /\ op.address - 65280 \in SoundAddresses

\* C7 (as stated): after a register read, a register write (NR52 included)
\* or get_output made at clock count c, the controller's last_clock is c.
C7_QueryCatchesUp ==
    SoundQuery => gb.sound.last_clock = gb.clock_count

\* NR52 written with bit 7 clear after the clock has moved
C7_Witness ==
    /\ op.kind = "write"
    /\ op.address = 65318
    /\ op.value = 0
    /\ gb.clock_count > 0
    /\ gb.sound.last_clock = 0

\* C8: in every reachable state
\* sound.last_clock <= timer.last_clock_count <= clock_count.
C8_ClockOrdering ==
    /\ gb.sound.last_clock <= gb.timer.last_clock_count
    /\ gb.timer.last_clock_count <= gb.clock_count

\* the APU caught up by get_output after a tick
C8_Witness ==
    /\ op.kind = "get_output"
    /\ Elapsed(gb) = 255
    /\ gb.sound.last_clock = gb.clock_count
    /\ gb.timer.last_clock_count = gb.clock_count

\* C9: tick(n) first adds n to clock_count, then updates the PPU, the Timer
\* and the Serial unit in that order, each given the advanced clock_count;
\* the interrupt bits are or-ed into IF: tick sets bits 0..3 only and clears
\* none.
C9_TickOrder ==
    [][op'.kind = "tick" =>
         LET c == gb.clock_count + op'.value
         IN /\ gb'.clock_count = c
            /\ op'.order = << [unit |-> "ppu", clock |-> c],
                              [unit |-> "timer", clock |-> c],
                              [unit |-> "serial", clock |-> c] >>
            /\ BitAnd(gb'.interrupt_flag, gb.interrupt_flag) = gb.interrupt_flag
            /\ BitAnd(gb'.interrupt_flag, 240) = BitAnd(gb.interrupt_flag, 240)
      ]_vars

\* a tick has raised the serial and the timer interrupts beside the bits
\* IF held
C9_Witness ==
    /\ op.kind = "tick"
    /\ gb.boot_rom = "None"
    /\ gb.interrupt_flag = 237
    /\ gb.serial_transfer_started = 0

\* a transfer has just been started by a write to SC with bits 7 and 0 set
TransferStarted ==
    /\ op.kind = "write"
    /\ op.address = 65282
    /\ BitAnd(op.value, 129) = 129

TransferCompleted ==
    /\ Bit(gb.interrupt_flag, 3) = 1
    /\ Bit(gb.serial_control, 7) = 0

\* C10 (as stated): a transfer started by a write to SC with bits 7 and 0
\* set, at any clock_count, completes provided tick keeps being called: IF
\* bit 3 becomes set and SC bit 7 cleared.
C10_TransferCompletes == TransferStarted ~> TransferCompleted

\* a transfer started in the first 504 T-cycles, still pending after more
\* than nine bit periods
C10_Witness ==
    /\ op.kind = "tick"
    /\ gb.boot_rom = "Some"
    /\ Bit(gb.serial_control, 7) = 1
    /\ gb.serial_transfer_started = 0
    /\ Len(gb.serial_transfer_callback) = 1
    /\ Bit(gb.interrupt_flag, 3) = 0
    /\ gb.clock_count > 6000

\* whether the step is the tick that completes a pending serial transfer
SerialCompletes ==
    /\ op'.kind = "tick"
    /\ gb.serial_transfer_started # 0
    /\ gb'.serial_transfer_started = 0

\* C11 (as stated): the serial-out callback is invoked with the transferred
\* byte in the tick that completes the transfer (the one raising IF bit 3),
\* once per transfer, and in no other step.
C11_CallbackAtCompletion ==
    [][ gb'.serial_transfer_callback =
            IF SerialCompletes
            THEN Append(gb.serial_transfer_callback, gb.serial_data)
            ELSE gb.serial_transfer_callback ]_vars

\* SC written twice with bits 7 and 0 set: the callback has run twice and no
\* transfer has completed
C11_Witness ==
    /\ op.kind = "write"
    /\ op.address = 65282
    /\ Len(gb.serial_transfer_callback) = 2
    /\ gb.serial_transfer_started # 0
    /\ Bit(gb.interrupt_flag, 3) = 0

\* an OAM DMA started by a write to 0xFF46 is in its 160 M-cycles
DmaInProgress ==
    /\ gb.ppu.dma_running
    /\ gb.clock_count < gb.ppu.dma_started + 4 * DmaBytes

\* addresses outside HRAM: cartridge ROM, WRAM (first byte, the DMA source)
DmaReadSample == {336, 49152, 49408}

\* C12 (as stated): while an OAM DMA started by a write to 0xFF46 is in
\* progress, a read of any address outside HRAM returns 0xFF.
C12_DmaReadsFF ==
    DmaInProgress => \A A \in DmaReadSample : read(gb, A) = 255

\* a tick into the DMA window: ROM and WRAM still read as their bytes
C12_Witness ==
    /\ op.kind = "tick"
    /\ DmaInProgress
    /\ gb.dma = 193
    /\ read(gb, 336) = CartridgeRomByte(336)
    /\ read(gb, 49152) = 0

\* the offsets of NR10 .. NR51
SoundRegisters == (16 .. 20) \cup (22 .. 30) \cup (32 .. 37)

\* C13: right after a write to NR52 with bit 7 clear every sound register
\* NR10-NR51 reads 0 and the channel-enable latches are all false; while the
\* master power is off every sample the controller has generated is 0.
C13_PowerOffClears ==
    /\ op.kind = "write" /\ op.address = 65318 /\ Bit(op.value, 7) = 0 =>
          /\ \A a \in SoundRegisters : read(gb, 65280 + a) = 0
          /\ ~gb.sound.ch1_channel_enable
          /\ ~gb.sound.ch2_channel_enable
          /\ ~gb.sound.ch3_channel_enable
    /\ ~gb.sound.on =>
          \A i \in 1 .. Len(gb.sound.output) : gb.sound.output[i].v = 0

\* a controller that had non-zero registers and channel 1 enabled (the state
\* after boot) powered off, and samples generated since
C13_Witness ==
    /\ op.kind = "write"
    /\ op.address = 65298
    /\ gb.boot_rom = "None"
    /\ ~gb.sound.on
    /\ gb.sound.nr51 = 0
    /\ ~gb.sound.ch1_channel_enable
    /\ OutputLen(gb.sound.output) > 0

\* the DAC of a square channel is off: NRx2 has initial volume 0 and the
\* envelope direction down (bits 3..7 clear)
DacOff(nrx2) == BitAnd(nrx2, 248) = 0

\* C14 (as stated): in every reachable state a channel whose DAC is off has
\* its channel-enable latch false; a trigger while the DAC is off does not
\* leave the channel enabled.
C14_DacOffDisables ==
    /\ DacOff(gb.sound.nr12) => ~gb.sound.ch1_channel_enable
    /\ DacOff(gb.sound.nr22) => ~gb.sound.ch2_channel_enable

\* channel 2 triggered while NR22 is 0: the latch is left set
C14_Witness ==
    /\ op.kind = "write"
    /\ op.address = 65305
    /\ op.value = 128
    /\ gb.sound.on
    /\ DacOff(gb.sound.nr22)
    /\ gb.sound.ch2_channel_enable

\* the sweep period of channel 1, NR10 bits 4..6
SweepPeriod(g) == Shr(BitAnd(g.sound.nr10, 112), 4)

\* whether the step made a sweep frequency calculation that yielded 2048 or
\* more: calculate_frequency then clears ch1_sweep_enabled, which a trigger
\* with a non-zero period has just set, and which nothing else in update
\* clears
SweepOverflowed ==
    \/ /\ op'.kind = "write" /\ op'.address = 65300 /\ Bit(op'.value, 7) = 1
       /\ SweepPeriod(gb') # 0
       /\ ~gb'.sound.ch1_sweep_enabled
    \/ /\ op'.kind = "frame"
       /\ gb.sound.ch1_sweep_enabled
       /\ ~gb'.sound.ch1_sweep_enabled

\* C15 (as stated): whenever the channel 1 sweep frequency calculation, at
\* trigger or at a sweep step, yields a new frequency of 2048 or more,
\* ch1_channel_enable becomes false.
C15_SweepOverflowDisables ==
    [][SweepOverflowed => ~gb'.sound.ch1_channel_enable]_vars

\* a powered-on controller whose sweep has overflowed at a sweep step
\* (period 1, shift 1, from frequency 2000): the channel is still enabled
C15_Witness ==
    /\ op.kind = "frame"
    /\ gb.sound.on
    /\ gb.sound.nr10 = 17
    /\ gb.sound.ch1_shadow_freq = 1458
    /\ ~gb.sound.ch1_sweep_enabled
    /\ gb.sound.ch1_channel_enable

\* how many sweep steps of the frame sequencer the controller has run since
\* the GameBoy was constructed: the clocks c below last_clock with sweep(c)
SweepStepsBefore(clock) ==
    (clock + CLOCK_SPEED \div 256 - 1) \div (CLOCK_SPEED \div 128)

SweepStepsRun(g) ==
    SweepStepsBefore(g.sound.last_clock) - SweepStepsBefore(g.clock_count - Elapsed(g))

\* channel 1 has just been triggered on a powered-on controller with
\* NR10 = 0x77 and the frequency 2000 in NR13/NR14
SweepTriggered ==
    /\ op.kind = "write"
    /\ op.address = 65300
    /\ Bit(op.value, 7) = 1
    /\ gb.sound.on
    /\ gb.sound.nr10 = 119
    /\ Freq11(gb.sound.nr14, gb.sound.nr13) = 2000

SweepDisabledInTime ==
    /\ ~gb.sound.ch1_channel_enable
    /\ SweepStepsRun(gb) <= 8

\* C16 (as stated): from a powered-on APU, after NR10 = 0x77, NR13/NR14
\* programmed to frequency 2000 and channel 1 triggered, the channel 1
\* enable latch is false within 8 sweep steps.
C16_SweepDisablesChannel == SweepTriggered ~> SweepDisabledInTime

\* eight sweep steps after that trigger: the sweep has moved the frequency
\* to 193 and the channel is still enabled
C16_Witness ==
    /\ op.kind = "frame"
    /\ gb.sound.on
    /\ gb.sound.nr10 = 119
    /\ gb.sound.ch1_shadow_freq = 193
    /\ Freq11(gb.sound.nr14, gb.sound.nr13) = 193
    /\ SweepStepsRun(gb) >= 8
    /\ gb.sound.ch1_channel_enable

\* the clock of the frame-sequencer step the controller ran in the last
\* FrameStep: the multiple of FrameCycles among the FrameCycles clocks below
\* last_clock
StepClock(g) == ((g.sound.last_clock - 1) \div FrameCycles) * FrameCycles

\* the number of that step, 0 .. 7
StepNumber(g) == (StepClock(g) \div FrameCycles) % 8

\* C17 (as stated): of the frame-sequencer steps 0..7, one per
\* CLOCK_SPEED/512 cycles, the length counters are clocked on steps 0, 2, 4
\* and 6, the sweep on steps 2 and 6, and the volume envelope exactly on
\* step 7.
C17_FrameSequencerSteps ==
    op.kind = "frame" /\ gb.sound.on =>
        /\ lenght_ctr(StepClock(gb)) <=> StepNumber(gb) \in {0, 2, 4, 6}
        /\ sweep(StepClock(gb)) <=> StepNumber(gb) \in {2, 6}
        /\ volume_env(StepClock(gb)) <=> StepNumber(gb) = 7

\* the third step run from the state after boot is step 0: the envelope of
\* channel 1 has been clocked in it (its period timer went from 3 to 2)
C17_Witness ==
    /\ op.kind = "frame"
    /\ gb.sound.on
    /\ gb.sound.nr10 = 0
    /\ Elapsed(gb) = 3 * FrameCycles
    /\ StepNumber(gb) = 0
    /\ volume_env(StepClock(gb))
    /\ gb.sound.ch1_env_period_timer = 2

\* channel 1 has just been triggered by a write to NR14 with bit 7 set
Ch1Triggered ==
    /\ op.kind = "write"
    /\ op.address = 65300
    /\ Bit(op.value, 7) = 1

\* C18 (as stated): on a channel 1 trigger ch1_shadow_freq is set to the
\* channel's current 11-bit frequency from NR13/NR14, a value in 0..2047.
C18_ShadowIsFrequency ==
    Ch1Triggered =>
        /\ gb.sound.ch1_shadow_freq = Freq11(gb.sound.nr14, gb.sound.nr13)
        /\ gb.sound.ch1_shadow_freq \in 0 .. 2047

\* a trigger with frequency 0x700: the shadow register holds the frequency
\* timer's reload, (2048 - 0x700) * 4
C18_Witness ==
    /\ Ch1Triggered
    /\ gb.sound.on
    /\ Freq11(gb.sound.nr14, gb.sound.nr13) = 1792
    /\ gb.sound.ch1_shadow_freq = 1024
    /\ gb.sound.ch1_frequency_timer = 1024

\* bytes of WRAM (0xC000, 0xDDFF), of ECHO (0xE000, 0xFDFF) and of HRAM
\* (0xFF80)
RamSample == {49152, 56831, 57344, 65023, 65408}

\* whether two addresses name the same byte
SameByte(A, B) == EchoRewrite(A) = EchoRewrite(B)

\* C19: for an address A in WRAM, in its ECHO alias or in HRAM, read(A)
\* returns v after write(A, v), and goes on returning the same byte over
\* ticks, reads and writes to other bytes.
C19_RamHolds ==
    [][ /\ op'.kind = "write" /\ op'.address \in RamSample
            => read(gb', op'.address) = op'.value
        /\ \A A \in RamSample :
              \/ op'.kind \in {"tick", "read"}
              \/ op'.kind = "write" /\ ~SameByte(op'.address, A)
              => read(gb', A) = read(gb, A) ]_vars

\* a byte written through ECHO and one written in HRAM, still read back
\* after a tick
C19_Witness ==
    /\ op.kind = "tick"
    /\ read(gb, 49152) = 129
    /\ read(gb, 57344) = 129
    /\ read(gb, 65408) = 1
    /\ read(gb, 56831) = 0

\* addresses of 0xFEA0-0xFEFF written to: the first two, one in the middle,
\* the last two
NotUsableSample == {65184, 65185, 65231, 65278, 65279}

\* C20: for every address in 0xFEA0-0xFEFF and every state, read returns
\* 0xFF and write leaves every field of the GameBoy unchanged.
C20_NotUsable ==
    /\ \A A \in 65184 .. 65279 : read(gb, A) = 255
    /\ \A A \in NotUsableSample, v \in Values : write(gb, A, v) = gb

\* 0xFEA0 written and then read, on a GameBoy whose RAM is no longer blank
C20_Witness ==
    /\ op.kind = "read"
    /\ op.address = 65184
    /\ op.ret = 255
    /\ steps = 3
    /\ read(gb, 49152) = 129

\* whether GameBoy::read(address0) ends in an unreachable!() arm: the ECHO
\* arm of its match, or the catch-all arm of SoundController::read for an
\* offset read_io forwards
ReadUnreachable(g, address0) ==
    /\ ~(g.boot_rom_active /\ address0 < 256)
    /\ LET address == EchoRewrite(address0)
       IN \/ address \in 57344 .. 65023
          \/ /\ address \in (65280 .. 65407) \cup {65535}
             /\ address % 256 \in SoundForwarded
             /\ address % 256 \notin SoundAddresses

\* whether GameBoy::write(address0, _) ends in an unreachable!() arm: the
\* ECHO arm of its match, or the catch-all arm of SoundController::write for
\* an offset write_io forwards
WriteUnreachable(g, address0) ==
    LET address == EchoRewrite(address0)
    IN \/ address \in 57344 .. 65023
       \/ /\ address \in (65280 .. 65407) \cup {65535}
          /\ address % 256 \in SoundForwarded
          /\ address % 256 \notin SoundAddresses

\* the addresses the decode is checked at: both ends of every range of the
\* match, the inside of the ECHO range, and every I/O register
DecodeSample ==
    { 0, 255, 256, 32767, 32768, 40959, 40960, 49151, 49152, 57343,
      57344, 57345, 61440, 65022, 65023, 65024, 65183, 65184, 65279 }
        \cup (65280 .. 65535)

\* C21: in every reachable state, for every address, GameBoy::read and
\* GameBoy::write reach no unreachable!() arm: neither the ECHO arm of the
\* bus decode nor the catch-all arm of SoundController::read/write.
C21_NoUnreachableArm ==
    \A A \in DecodeSample : ~ReadUnreachable(gb, A) /\ ~WriteUnreachable(gb, A)

\* a write forwarded to the sound controller (NR52, power on) on a machine
\* whose WRAM holds a byte written before, read back through its ECHO address
C21_Witness ==
    /\ op.kind = "write"
    /\ op.address = 65318
    /\ op.value = 129
    /\ gb.sound.on
    /\ read(gb, 65023) = 1
    /\ read(gb, 65318) = gb.sound.nr52

\* the fields of the GameBoy other than the cartridge and the callbacks
ResetFields ==
    { "cpu", "wram", "hram", "boot_rom", "boot_rom_active", "clock_count",
      "timer", "sound", "ppu", "joypad", "joypad_io", "serial_data",
      "serial_control", "serial_transfer_started", "interrupt_flag", "dma",
      "interrupt_enabled", "v_blank_trigger" }

\* C22 (as stated): right after reset() every field other than the cartridge
\* and the callbacks has the value it has after GameBoy::new with the same
\* boot-ROM option, whatever the state before the call.
C22_ResetRestoresNew ==
    op.kind = "reset" =>
        \A f \in ResetFields : gb[f] = new(gb.boot_rom, CartridgeNew)[f]

\* a GameBoy with a boot ROM reset after IF was written: the RAM, the clock
\* and the units are those of new, the interrupt flag is still the written one
C22_Witness ==
    /\ op.kind = "reset"
    /\ gb.boot_rom = "Some"
    /\ gb.clock_count = 0
    /\ gb.wram = new("Some", CartridgeNew).wram
    /\ gb.sound = new("Some", CartridgeNew).sound
    /\ gb.interrupt_flag = 129
    /\ new("Some", CartridgeNew).interrupt_flag = 0

\* whether the values of the queue a are the first values of the queue b
\* (both run-length encoded)
OutputPrefix(a, b) ==
    \/ Len(a) = 0
    \/ /\ Len(a) <= Len(b)
       /\ \A i \in 1 .. Len(a) - 1 : a[i] = b[i]
       /\ a[Len(a)].v = b[Len(a)].v
       /\ a[Len(a)].n <= b[Len(a)].n

\* C23 (as stated): get_output leaves the queue empty, and no register read
\* or write (NR52 writes included) nor tick removes or changes a value that
\* is queued: the queue before the step is the beginning of the queue after.
C23_QueueKeptUntilDrained ==
    [][ /\ op'.kind = "get_output" => gb'.sound.output = <<>>
        /\ op'.kind \in {"read", "write", "tick"} =>
              OutputPrefix(gb.sound.output, gb'.sound.output) ]_vars

\* the master power switched off by a write to NR52 after the clock has run:
\* the queue is empty although the update at the start of that write had
\* samples to append, and last_clock is back at 0
C23_Witness ==
    /\ op.kind = "write"
    /\ op.address = 65318
    /\ Bit(op.value, 7) = 0
    /\ Elapsed(gb) >= 255
    /\ gb.sound.output = <<>>
    /\ gb.sound.last_clock = 0
    /\ ~gb.sound.on

\* C24: get_header returns Ok(header) whenever from_bytes produced a header,
\* whether from_bytes succeeded or failed with a partial header, and returns
\* Err only when from_bytes produced no header at all.
C24_PartialHeaderIsOk ==
    rom.header # NotLoaded =>
        LET r == from_bytes(read_uri(rom.file, HeaderLen))
        IN /\ r.tag = "Ok" => rom.header = Ok(r.header)
           /\ r.tag = "Err" /\ r.header.tag = "Some" =>
                 rom.header = Ok(r.header.header)
           /\ rom.header.tag = "Err" <=> (r.tag = "Err" /\ r.header.tag = "None")

\* get_header has returned Ok with the header of a file whose checksum byte
\* is wrong: from_bytes failed with a partial header
C24_Witness ==
    /\ op.kind = "get_header"
    /\ rom.file.len >= HeaderLen
    /\ rom.file.header_checksum # HeaderChecksum(rom.file)
    /\ from_bytes(read_uri(rom.file, HeaderLen)).tag = "Err"
    /\ rom.header.tag = "Ok"
    /\ rom.header.header.title = 84

\* a serial transfer is under way: SC bit 7, set by the write that started
\* it, has not been cleared yet
TransferPending(g) == Bit(g.serial_control, 7) = 1

\* the step completes a transfer: IF bit 3 set, SC bit 7 cleared,
\* serial_transfer_started back to 0
TransferCompletes ==
    /\ Bit(gb'.interrupt_flag, 3) = 1
    /\ Bit(gb'.serial_control, 7) = 0
    /\ TransferPending(gb)
    /\ gb'.serial_transfer_started = 0

\* C25 (as stated): an SC write at clock c0 that starts a transfer records
\* serial_transfer_started = (c0 + 8) >> 9; the transfer completes at the
\* first tick after which (clock_count + 8) >> 9 >= serial_transfer_started
\* + 8 and at no earlier one; while serial_transfer_started is 0 a tick
\* neither sets IF bit 3 nor changes SC.
C25_TransferTiming ==
    [][ /\ op'.kind = "write" /\ op'.address = 65282
           /\ BitAnd(op'.value, 129) = 129 =>
              gb'.serial_transfer_started = Shr(gb.clock_count + SERIAL_OFFSET, 9)
        /\ op'.kind = "tick" /\ TransferPending(gb) =>
              (TransferCompletes <=>
                  Shr(gb'.clock_count + SERIAL_OFFSET, 9)
                      >= gb.serial_transfer_started + 8)
        /\ op'.kind = "tick" /\ gb.serial_transfer_started = 0 =>
              /\ Bit(gb'.interrupt_flag, 3) = Bit(gb.interrupt_flag, 3)
              /\ gb'.serial_control = gb.serial_control ]_vars

\* a transfer started in the first 504 T-cycles is recorded as 0: eight bit
\* periods later the tick has left it pending
C25_Witness ==
    /\ op.kind = "tick"
    /\ TransferPending(gb)
    /\ gb.serial_transfer_started = 0
    /\ Shr(gb.clock_count + SERIAL_OFFSET, 9) = 8
    /\ Bit(gb.interrupt_flag, 3) = 0
    /\ gb.serial_transfer_callback = <<0>>

\* what a length step does to one channel: nrx4 its NRx4, timer and enable
\* its length timer and enable latch before the step, timer2 and enable2
\* after it
LengthStepped(nrx4, timer, enable, timer2, enable2) ==
    IF Bit(nrx4, 6) = 1 /\ timer # 0
    THEN /\ timer2 = timer - 1
         /\ enable2 = (enable /\ timer2 # 0)
    ELSE /\ timer2 = timer
         /\ enable2 = enable

\* C26: while the master power is on, a length step decrements by one the
\* length timer of each channel (1, 2, 3) whose NRx4 bit 6 is set and whose
\* timer is not zero, and clears its enable latch exactly when the timer
\* reaches zero; with the length-enable bit clear the step changes neither
\* the timer nor the latch.
C26_LengthStep ==
    [][ op'.kind = "frame" /\ gb.sound.on /\ lenght_ctr(StepClock(gb')) =>
          /\ LengthStepped(gb.sound.nr14, gb.sound.ch1_length_timer,
                           gb.sound.ch1_channel_enable,
                           gb'.sound.ch1_length_timer,
                           gb'.sound.ch1_channel_enable)
          /\ LengthStepped(gb.sound.nr24, gb.sound.ch2_length_timer,
                           gb.sound.ch2_channel_enable,
                           gb'.sound.ch2_length_timer,
                           gb'.sound.ch2_channel_enable)
          /\ LengthStepped(gb.sound.nr34, gb.sound.ch3_length_timer,
                           gb.sound.ch3_channel_enable,
                           gb'.sound.ch3_length_timer,
                           gb'.sound.ch3_channel_enable) ]_vars

\* after a length step with the master power on: the timer of channel 1,
\* loaded with 1 and triggered with the length enabled, is 0 and the latch
\* is cleared, while channel 2, triggered with the timer at 64, is at 63 and
\* still enabled
C26_Witness ==
    /\ op.kind = "frame"
    /\ gb.sound.on
    /\ lenght_ctr(StepClock(gb))
    /\ gb.sound.nr11 = 63
    /\ Bit(gb.sound.nr14, 6) = 1
    /\ gb.sound.ch1_length_timer = 0
    /\ ~gb.sound.ch1_channel_enable
    /\ Bit(gb.sound.nr24, 6) = 1
    /\ gb.sound.ch2_length_timer = 63
    /\ gb.sound.ch2_channel_enable

\* what a write of value to NRx4 does to a channel, given the channel before
\* the write (after the write's update) and after it, each as a record of
\* its enable latch, length timer, position, envelope period timer and
\* volume; full is the length a trigger loads, nrx2 the envelope register
\* (0 for channel 3, which has no envelope)
Triggered(value, before, after, full, nrx2) ==
    IF Bit(value, 7) = 1
    THEN /\ after.enable
         /\ after.length = IF before.length = 0 THEN full ELSE before.length
         /\ after.position = 0
         /\ after.period_timer = nrx2 % 8
         /\ after.volume = Shr(nrx2, 4)
    ELSE after = before

Ch1Trigger(s) ==
    [ enable |-> s.ch1_channel_enable, length |-> s.ch1_length_timer,
      position |-> s.ch1_wave_duty_position,
      period_timer |-> s.ch1_env_period_timer, volume |-> s.ch1_current_volume ]

Ch2Trigger(s) ==
    [ enable |-> s.ch2_channel_enable, length |-> s.ch2_length_timer,
      position |-> s.ch2_wave_duty_position,
      period_timer |-> s.ch2_env_period_timer, volume |-> s.ch2_current_volume ]

Ch3Trigger(s) ==
    [ enable |-> s.ch3_channel_enable, length |-> s.ch3_length_timer,
      position |-> s.ch3_wave_position, period_timer |-> 0, volume |-> 0 ]

\* C27: with the master power on, a write with bit 7 set to NR14, NR24 or
\* NR34 sets the channel's enable latch, sets its length timer to 64
\* (channels 1, 2) or 256 (channel 3) if and only if it was 0, resets its
\* duty/wave position to 0 and, for channels 1 and 2, reloads the envelope
\* period timer from NRx2 bits 0-2 and the volume from NRx2 bits 4-7; a
\* write with bit 7 clear does none of these.
C27_Trigger ==
    [][ op'.kind = "write" /\ gb.sound.on =>
          LET before == SoundUpdate(gb.sound, gb.clock_count)
          IN /\ op'.address = 65300 =>
                   Triggered(op'.value, Ch1Trigger(before), Ch1Trigger(gb'.sound),
                             64, before.nr12)
             /\ op'.address = 65305 =>
                   Triggered(op'.value, Ch2Trigger(before), Ch2Trigger(gb'.sound),
                             64, before.nr22)
             /\ op'.address = 65310 =>
                   Triggered(op'.value, Ch3Trigger(before), Ch3Trigger(gb'.sound),
                             256, 0) ]_vars

\* channel 3 triggered with its length timer at 1 (kept) after channel 1
\* was triggered with its timer at 64 (kept) and its envelope register at
\* 0xF3, the master power on
C27_Witness ==
    /\ op.kind = "write"
    /\ op.address = 65310
    /\ Bit(op.value, 7) = 1
    /\ gb.sound.on
    /\ gb.sound.ch3_channel_enable
    /\ gb.sound.ch3_length_timer = 1
    /\ gb.sound.ch3_wave_position = 0
    /\ gb.sound.nr14 = 128
    /\ gb.sound.ch1_length_timer = 64
    /\ gb.sound.ch1_env_period_timer = 3
    /\ gb.sound.ch1_current_volume = 15

\* the frequency timer a trigger write of value to NRx4 loads, from the
\* frequency in effect after the write: bits 0-2 of value above NRx3
ReloadAfterWrite(value, nrx3, factor) == (2048 - Freq11(value, nrx3)) * factor

\* C28 (as stated): a trigger write of value v to NRx4 reloads the channel's
\* frequency timer from the 11-bit frequency in effect after the write (high
\* three bits v's bits 0-2, low eight bits NRx3): (2048 - freq) * 4 for
\* channels 1 and 2, (2048 - freq) * 2 for channel 3.
C28_TriggerReloadsFrequencyTimer ==
    op.kind = "write" /\ Bit(op.value, 7) = 1 =>
       /\ op.address = 65300 =>
             gb.sound.ch1_frequency_timer =
                 ReloadAfterWrite(op.value, gb.sound.nr13, 4)
       /\ op.address = 65305 =>
             gb.sound.ch2_frequency_timer =
                 ReloadAfterWrite(op.value, gb.sound.nr23, 4)
       /\ op.address = 65310 =>
             gb.sound.ch3_frequency_timer =
                 ReloadAfterWrite(op.value, gb.sound.nr33, 2)

\* channel 1 triggered by a write of 0x80 while NR14 held the high bits 7
\* and NR13 0xC1: the timer is (2048 - 0x7C1) * 4 = 252, from the frequency
\* before the write, and the frequency in effect is 0x0C1
C28_Witness ==
    /\ op.kind = "write"
    /\ op.address = 65300
    /\ op.value = 128
    /\ gb.sound.nr13 = 193
    /\ gb.sound.nr14 = 128
    /\ gb.sound.ch1_frequency_timer = 252
    /\ ReloadAfterWrite(op.value, gb.sound.nr13, 4) = 7420

\* the state of channel 1 and of channel 2 the claim compares: enable latch,
\* length timer, frequency timer, duty position, volume, envelope period
\* timer
Ch1State(s) ==
    << s.ch1_channel_enable, s.ch1_length_timer, s.ch1_frequency_timer,
       s.ch1_wave_duty_position, s.ch1_current_volume, s.ch1_env_period_timer >>

Ch2State(s) ==
    << s.ch2_channel_enable, s.ch2_length_timer, s.ch2_frequency_timer,
       s.ch2_wave_duty_position, s.ch2_current_volume, s.ch2_env_period_timer >>

\* C29 (as stated): with NR10 = 0, the same values written to NR11-NR14 and
\* to NR21-NR24, interleaved with the same updates, leave the enable latch,
\* length timer, frequency timer, duty position, volume and envelope period
\* timer equal in channels 1 and 2 after every step.
C29_Channel2LikeChannel1 ==
    gb.sound.nr10 = 0 => Ch1State(gb.sound) = Ch2State(gb.sound)

\* 63 written to NR11 and to NR21 with the master power on: the length
\* timer of channel 1 is 1, the one of channel 2 still 0
C29_Witness ==
    /\ op.kind = "pair"
    /\ op.address = 65297
    /\ gb.sound.on
    /\ gb.sound.nr10 = 0
    /\ gb.sound.nr11 = 63
    /\ gb.sound.nr21 = 63
    /\ gb.sound.ch1_length_timer = 1
    /\ gb.sound.ch2_length_timer = 0

\* the sample instants c with l <= c < r: those with
\* c * sample_frequency mod CLOCK_SPEED < sample_frequency
SampleInstants(l, r, fs) ==
    Cardinality({ c \in l .. r - 1 : (c * fs) % CLOCK_SPEED < fs })

\* C30 (as stated): while the master power is off, update(clock_count)
\* appends exactly 2 * n zero values, n the number of sample instants c with
\* last_clock <= c < clock_count; an update with clock_count = last_clock
\* appends nothing; and two consecutive updates, to a clock in between and
\* then to clock_count, append as much as the single update to clock_count.
C30_OffUpdateAppendsZeros ==
    [][ (op'.kind = "write" /\ ~gb.sound.on) =>
          LET s == gb.sound
              l == s.last_clock
              r == gb.clock_count
          IN /\ gb'.sound.output =
                    OutputPush(s.output, 0, 2 * SampleInstants(l, r, s.sample_frequency))
             /\ l = r => gb'.sound.output = s.output
             /\ \A m \in l .. r :
                    OutputLen(UpdateOff(UpdateOff(s, m), r).output)
                        = OutputLen(gb'.sound.output) ]_vars

\* a register written with the power off 88 T-cycles after construction,
\* nothing drained: the only sample instant since last_clock = 0 and before
\* 88 is 0, and four zero values are queued
C30_Witness ==
    /\ op.kind = "write"
    /\ ~gb.sound.on
    /\ gb.clock_count = 88
    /\ gb.sound.last_clock = 88
    /\ SampleInstants(0, 88, gb.sound.sample_frequency) = 1
    /\ gb.sound.output = << [v |-> 0, n |-> 4] >>

\* C31 (as stated): in every state reachable through new, reset, load_state,
\* read, write and tick, boot_rom_active implies that a boot ROM is present,
\* so that a read of an address below 0x100 does not panic on the missing
\* boot ROM.
C31_BootRomPresentWhenActive ==
    gb.boot_rom_active =>
        /\ gb.boot_rom # "None"
        /\ \A A \in LowSample : read(gb, A) # PANIC

\* a state saved by a GameBoy that holds a boot ROM and is still running it,
\* loaded into a GameBoy constructed without one: the flag is set, there is
\* no boot ROM, and the read of 0x0010 panics
C31_Witness ==
    /\ op.kind = "load_state"
    /\ op.ret = "Ok"
    /\ saved_from.boot_rom = "Some"
    /\ saved_from.boot_rom_active
    /\ gb.boot_rom = "None"
    /\ gb.boot_rom_active
    /\ read(gb, 16) = PANIC

\* C32: in every reachable state of the SoundController the duty positions
\* of channels 1 and 2 are in 0..7, ch3_wave_position is in 0..31, the
\* volumes of channels 1 and 2 are in 0..15 (the envelope stops at 0 and at
\* 15), the length timers of channels 1 and 2 are at most 64 and the one of
\* channel 3 at most 256.
C32_SoundRanges ==
    LET s == gb.sound
    IN /\ s.ch1_wave_duty_position \in 0 .. 7
       /\ s.ch2_wave_duty_position \in 0 .. 7
       /\ s.ch3_wave_position \in 0 .. 31
       /\ s.ch1_current_volume \in 0 .. 15
       /\ s.ch2_current_volume \in 0 .. 15
       /\ s.ch1_length_timer \in 0 .. 64
       /\ s.ch2_length_timer \in 0 .. 64
       /\ s.ch3_length_timer \in 0 .. 256

\* all three channels triggered, the power on and a volume envelope step
\* run: channel 1 (upwards from 15) is still at 15 and channel 2 (downwards
\* from 0) at 0, both period timers reloaded; the wave position has wrapped
\* and the length timer of channel 3 has come down from 256
C32_Witness ==
    /\ op.kind = "frame"
    /\ gb.sound.on
    /\ volume_env(StepClock(gb))
    /\ gb.sound.nr12 = 249
    /\ gb.sound.nr22 = 1
    /\ gb.sound.ch1_current_volume = 15
    /\ gb.sound.ch2_current_volume = 0
    /\ gb.sound.ch1_env_period_timer = 1
    /\ gb.sound.ch2_env_period_timer = 1
    /\ gb.sound.ch3_length_timer = 255
    /\ gb.sound.ch3_wave_position < 16

\* of the n T-cycles stepped from the phase sample_mod, those whose updated
\* phase (sample_mod + k * sample_frequency) mod CLOCK_SPEED is below
\* sample_frequency
Emissions(sample_mod, fs, n) ==
    Cardinality({ k \in 1 .. n : (sample_mod + k * fs) % CLOCK_SPEED < fs })

\* C33: in every reachable state the output queue holds an even number of
\* values; an update, with the master power on or off, appends whole
\* left/right pairs, and with the power on one pair for each stepped T-cycle
\* whose updated sample_mod is below sample_frequency, and for no other.
C33_PairsAtSamplePhase ==
    LET s == gb.sound
        n == gb.clock_count - s.last_clock
    IN /\ OutputLen(s.output) % 2 = 0
       /\ OutputLen(SoundUpdate(s, gb.clock_count).output) % 2 = 0
       /\ s.on =>
            OutputLen(SoundUpdate(s, gb.clock_count).output)
                = OutputLen(s.output) + 2 * Emissions(s.sample_mod, s.sample_frequency, n)

\* NR50 = 0x17, channel 1 triggered at volume 15, 255 T-cycles run and the
\* controller updated by a write: the T-cycles 88 and 175 after the boot
\* gave a pair each, left (15 * 1) at the even index, right (15 * 7) at the
\* odd one
C33_Witness ==
    /\ op.kind = "write"
    /\ gb.sound.on
    /\ gb.sound.nr50 = 23
    /\ gb.sound.last_clock = AfterBootClock + 255
    /\ Emissions(0, gb.sound.sample_frequency, 255) = 2
    /\ OutputLen(gb.sound.output) = 4
    /\ gb.sound.output = << [v |-> 15, n |-> 1], [v |-> 105, n |-> 1],
                            [v |-> 15, n |-> 1], [v |-> 105, n |-> 1] >>

\* C34 (as stated): a read of NR52 (0xFF26) reflects the master power: right
\* after a write to NR52 with bit 7 set the read returns a value with bit 7
\* set, and after a write with bit 7 clear, bit 7 reads clear.
C34_Nr52ReadsPower ==
    [][ ( /\ op.kind = "write" /\ op.address = 65318
          /\ op'.kind = "read" /\ op'.address = 65318 )
            => Bit(op'.ret, 7) = Bit(op.value, 7) ]_vars

\* a GameBoy constructed with a boot ROM (power off), the power switched on
\* by the write of 0x80 to NR52, and NR52 read next: the controller is on
\* and the read returns 0
C34_Witness ==
    /\ op.kind = "read"
    /\ op.address = 65318
    /\ steps = 2
    /\ gb.boot_rom = "Some"
    /\ gb.sound.on
    /\ op.ret = 0

\* C35 (as stated): the sample_frequency the host configured keeps its value
\* across every SoundController::write and update, for every register and
\* value, a write to NR52 that turns the master power off included.
C35_SampleFrequencyKept ==
    [][ op'.kind \in {"write", "get_output"} =>
            gb'.sound.sample_frequency = gb.sound.sample_frequency ]_vars

\* the master power switched off by a write to NR52: the controller samples
\* at 48000 Hz, which is none of the rates of the host
C35_Witness ==
    /\ op.kind = "write"
    /\ op.address = 65318
    /\ Bit(op.value, 7) = 0
    /\ ~gb.sound.on
    /\ gb.sound.sample_frequency = 48000
    /\ gb.sound.sample_frequency \notin HostSampleFrequencies

\* the length steps update runs for the clocks from `from` up to and
\* excluding `to`: the multiples of LengthCycles among them
LengthStepsIn(from, to) ==
    (to + LengthCycles - 1) \div LengthCycles - (from + LengthCycles - 1) \div LengthCycles

\* the length steps run since the trigger (the driver writes before the
\* clock runs)
LengthStepsRun == LengthStepsIn(gb.clock_count - Elapsed(gb), gb.sound.last_clock)

\* the master power is on and the last write to the register was a trigger
\* with the length enabled
NoteTriggered(nrx4) == gb.sound.on /\ Bit(nrx4, 7) = 1 /\ Bit(nrx4, 6) = 1

\* a latch that is still set has a length timer that has not run out, and
\* that has been counted down by every length step since the trigger from a
\* value of at most `full`; after `full` length steps the latch is clear
NoteEndsWithin(enable, timer, full) ==
    /\ enable => timer >= 1 /\ timer + LengthStepsRun <= full
    /\ LengthStepsRun >= full => ~enable

C37_TransferOnlyWithScBit7 ==
    [][ /\ gb'.serial_transfer_started # 0 => Bit(gb'.serial_control, 7) = 1
        /\ ( /\ op'.kind = "tick"
             /\ Bit(gb.interrupt_flag, 3) = 0
             /\ Bit(gb'.interrupt_flag, 3) = 1 )
               => Bit(gb.serial_control, 7) = 1 ]_vars

\* a transfer started by SC = 0x81 and SC written again with bit 7 clear:
\* serial_transfer_started still holds the start of the transfer
C37_Witness ==
    /\ op.kind = "write"
    /\ op.address = 65282
    /\ op.value = 1
    /\ gb.serial_transfer_started # 0
    /\ gb.serial_control = 127
    /\ Bit(gb.serial_control, 7) = 0

\* C38 (as stated): observational determinism of ==.  If two GameBoys compare
\* equal under ==, the same operation (tick, read or write) applied to both
\* returns the same read result and leaves them comparing equal.
C38_EqualStatesStayEqual ==
    [][ ( /\ eq(gb, saved_from)
          /\ op'.kind \in {"tick", "read", "write"} )
        => /\ eq(gb', saved_from')
           /\ op'.kind = "read" => op'.ret = read(saved_from, op'.address) ]_vars

\* both started a transfer, the first one serial period earlier: the two
\* compared equal until the tick that completed the transfer of the first
C38_Witness ==
    /\ op.kind = "tick"
    /\ gb.clock_count = saved_from.clock_count
    /\ [gb EXCEPT !.serial_control = 0, !.interrupt_flag = 0, !.serial_transfer_started = 0]
         = [saved_from EXCEPT !.serial_control = 0, !.interrupt_flag = 0, !.serial_transfer_started = 0]
    /\ Bit(gb.interrupt_flag, 3) = 1
    /\ gb.serial_control = 127
    /\ Bit(saved_from.interrupt_flag, 3) = 0
    /\ saved_from.serial_control = 255
    /\ saved_from.serial_transfer_started = gb.clock_count \div 512 - 7

\* the rom list is in the order of the closure of update_sort
RomsSorted(this) ==
    \A i \in 1..Len(this.roms) : \A j \in i..Len(this.roms) :
        Compare(this.sort_collumn, this.sort_direction, this.roms[i], this.roms[j]) <= 0

\* the bag of entries of a rom list
RomsBag(roms) == [e \in {roms[i] : i \in 1..Len(roms)} |->
                    Cardinality({i \in 1..Len(roms) : roms[i] = e})]

\* C39: sort_by(c) flips the direction when c is the current sort collumn and
\* makes it Ascending otherwise; afterwards sort_collumn = c and the rom list
\* (the same entries) is in the order of that collumn and direction; a second
\* sort_by(c) on the collumn already selected gives back the direction and
\* the order the list had.
C39_SortByFlipsAndRestores ==
    [][ op'.kind = "sort_by" =>
          LET c == op'.address
          IN /\ ui'.sort_direction =
                   IF ui.sort_collumn = c
                   THEN IF ui.sort_direction = "Ascending" THEN "Descending" ELSE "Ascending"
                   ELSE "Ascending"
             /\ ui'.sort_collumn = c
             /\ RomsSorted(ui')
             /\ RomsBag(ui'.roms) = RomsBag(ui.roms)
             /\ ui.sort_collumn = c =>
                  /\ sort_by(ui', c).sort_direction = ui.sort_direction
                  /\ sort_by(ui', c).roms = ui.roms ]_vars

\* the list with two entries of the same file name, header name and size,
\* sorted by file name and then clicked on File: descending
C39_Witness ==
    /\ op.kind = "sort_by"
    /\ op.address = 0
    /\ ui.sort_collumn = 0
    /\ ui.sort_direction = "Descending"
    /\ Len(ui.roms) = 3
    /\ ui.roms[3].file = FileB
    /\ ui.roms[1].file = FileD
    /\ ui.roms[2].file = FileA
    /\ ui.roms[1].name = Value(84)
    /\ ui.sort_list = Value([dir |-> "-", title |-> "File"])

\* the files the worker lists, in the order of the listing
ListedFiles == load_roms(loader.folder.value)

\* C40: with a rom folder configured the worker sends two UpdatedRomList
\* events and no more: first every listed file with name and size unset, then
\* the same files in the same order, each with a name (the title of its header
\* or the error text); the worker has finished exactly when both are sent.
\* With no folder configured start_loading sends one event with an empty list
\* and spawns no worker.
C40_TwoEventsInOrder ==
    IF loader.folder.tag = "None"
    THEN /\ loader.pc \in {"new", "returned"}
         /\ loader.events = IF loader.pc = "new" THEN <<>> ELSE << <<>> >>
    ELSE /\ loader.pc \in {"new", "spawned", "headers", "finished"}
         /\ Len(loader.events) =
              CASE loader.pc = "headers" -> 1
                [] loader.pc = "finished" -> 2
                [] OTHER -> 0
         /\ Len(loader.events) >= 1 =>
              /\ Len(loader.events[1]) = Len(ListedFiles)
              /\ \A i \in 1..Len(ListedFiles) :
                   /\ loader.events[1][i].file = ListedFiles[i]
                   /\ loader.events[1][i].name = NoValue
                   /\ loader.events[1][i].size = NoValue
         /\ Len(loader.events) = 2 =>
              /\ Len(loader.events[2]) = Len(ListedFiles)
              /\ \A i \in 1..Len(ListedFiles) :
                   /\ loader.events[2][i].file = ListedFiles[i]
                   /\ loader.events[2][i].save_time = loader.events[1][i].save_time
                   /\ loader.events[2][i].name =
                        IF get_header(ListedFiles[i]).tag = "Ok"
                        THEN Value(title_as_string(get_header(ListedFiles[i]).header))
                        ELSE Value(ErrorName)

\* both events are sent, the second with a title and with the error text, and
\* meanwhile the user interface has put the first list in another order
C40_Witness ==
    /\ loader.pc = "finished"
    /\ Len(loader.events) = 2
    /\ loader.received = 1
    /\ Len(loader.events[2]) = 3
    /\ loader.events[2][1].file = FileA
    /\ loader.events[2][1].name = Value(84)
    /\ loader.events[2][2].file = FileB
    /\ loader.events[2][2].name = Value(ErrorName)
    /\ loader.events[2][3].name = Value(0)
    /\ ui.roms[1].file = FileB

====
